---- MODULE Spec2Model ----
(***************************************************************************)
(* geneos-xtender: a batch of Nagios-style checks is built from templates  *)
(* (variable resolution, range expansion), run sequentially or in          *)
(* parallel under a per-check timeout, and projected to CSV rows.          *)
(*                                                                         *)
(* Strings are sequences of one-character strings; Option<T> is the empty  *)
(* sequence (None) or a one-element sequence (Some).                       *)
(***************************************************************************)
EXTENDS Integers, Sequences, FiniteSets, TLC

None == <<>>
Some(x) == <<x>>

\* Option::unwrap_or_default on a string
unwrap_or_default(opt) == IF opt = None THEN <<>> ELSE opt[1]

(***************************************************************************)
(* Characters and strings                                                  *)
(***************************************************************************)

\* The characters of the model in byte order (String's Ord is bytewise): the
\* tab, the newline and the printable characters of ASCII.  "U+96" stands for
\* the grave accent, and "U+" and its code point for every character outside
\* this alphabet.
Ascii ==
  << "\t", "\n", " ", "!", "\"", "#", "$", "%", "&", "'", "(", ")", "*", "+",
     ",", "-", ".", "/", "0", "1", "2", "3", "4", "5", "6", "7", "8", "9",
     ":", ";", "<", "=", ">", "?", "@", "A", "B", "C", "D", "E", "F", "G",
     "H", "I", "J", "K", "L", "M", "N", "O", "P", "Q", "R", "S", "T", "U",
     "V", "W", "X", "Y", "Z", "[", "\\", "]", "^", "_", "U+96", "a", "b", "c",
     "d", "e", "f", "g", "h", "i", "j", "k", "l", "m", "n", "o", "p", "q",
     "r", "s", "t", "u", "v", "w", "x", "y", "z", "{", "|", "}", "~" >>

CharCode(c) == CHOOSE k \in 1..Len(Ascii) : Ascii[k] = c

DigitChars == {"0", "1", "2", "3", "4", "5", "6", "7", "8", "9"}

UpperChars ==
  {"A", "B", "C", "D", "E", "F", "G", "H", "I", "J", "K", "L", "M", "N", "O",
   "P", "Q", "R", "S", "T", "U", "V", "W", "X", "Y", "Z"}

HexChars == DigitChars \cup {"a", "b", "c", "d", "e", "f", "A", "B", "C", "D", "E", "F"}

Whitespace == {" ", "\t", "\n"}

\* str < str, bytewise lexicographic
RECURSIVE StrLess(_, _)
StrLess(a, b) ==
  IF b = <<>> THEN FALSE
  ELSE IF a = <<>> THEN TRUE
  ELSE IF Head(a) = Head(b) THEN StrLess(Tail(a), Tail(b))
  ELSE CharCode(Head(a)) < CharCode(Head(b))

\* Option<String> < Option<String>: None sorts before Some
OptStrLess(a, b) ==
  IF a = None THEN b # None
  ELSE b # None /\ StrLess(a[1], b[1])

MatchAt(s, pat, i) ==
  /\ i >= 1
  /\ i + Len(pat) - 1 <= Len(s)
  /\ SubSeq(s, i, i + Len(pat) - 1) = pat

starts_with(s, pat) == MatchAt(s, pat, 1)

contains(s, pat) == \E i \in 1..(Len(s) + 1) : MatchAt(s, pat, i)

\* The least element of a set of numbers that is not empty
Min(S) == CHOOSE n \in S : \A m \in S : n <= m

\* str::replace with a pattern that is not empty: every non-overlapping
\* occurrence of pat, left to right
RECURSIVE ReplaceFrom(_, _, _, _)
ReplaceFrom(s, pat, rep, i) ==
  LET Matches == {j \in i..Len(s) : MatchAt(s, pat, j)} IN
  IF Matches = {} THEN SubSeq(s, i, Len(s))
  ELSE SubSeq(s, i, Min(Matches) - 1) \o rep
       \o ReplaceFrom(s, pat, rep, Min(Matches) + Len(pat))

replace(s, pat, rep) == ReplaceFrom(s, pat, rep, 1)

\* first index >= i whose character is not in C (Len(s) + 1 if none)
RECURSIVE RunEnd(_, _, _)
RunEnd(s, C, i) ==
  IF i <= Len(s) /\ s[i] \in C THEN RunEnd(s, C, i + 1) ELSE i

DigitVal(c) == CharCode(c) - CharCode("0")

\* The number a run of digits denotes (0 for the empty run)
RECURSIVE DigitsValue(_)
DigitsValue(s) ==
  IF s = <<>> THEN 0
  ELSE DigitsValue(SubSeq(s, 1, Len(s) - 1)) * 10 + DigitVal(s[Len(s)])

RECURSIVE StripZeros(_)
StripZeros(s) == IF s # <<>> /\ Head(s) = "0" THEN StripZeros(Tail(s)) ELSE s

I32Max == <<"2", "1", "4", "7", "4", "8", "3", "6", "4", "7">>

\* str::parse::<i32> of a run of digits: Some(n) for Ok(n), None for
\* Err(ParseIntError): the empty run (Empty), a number above i32::MAX
\* (PosOverflow).
parse_i32(s) ==
  LET digits == StripZeros(s) IN
  IF s = <<>> THEN None
  ELSE IF Len(digits) > Len(I32Max) THEN None
  ELSE IF Len(digits) = Len(I32Max) /\ StrLess(I32Max, digits) THEN None
  ELSE Some(DigitsValue(digits))

\* i32::to_string / u64 Display, for n >= 0
RECURSIVE to_string(_)
to_string(n) ==
  IF n < 10 THEN <<Ascii[CharCode("0") + n]>>
  ELSE to_string(n \div 10) \o <<Ascii[CharCode("0") + (n % 10)]>>

RECURSIVE Concat(_)
Concat(ss) == IF ss = <<>> THEN <<>> ELSE Head(ss) \o Concat(Tail(ss))

\* slice::join
RECURSIVE join(_, _)
join(ss, sep) ==
  IF ss = <<>> THEN <<>>
  ELSE IF Len(ss) = 1 THEN ss[1]
  ELSE ss[1] \o sep \o join(Tail(ss), sep)

RECURSIVE TrimStart(_)
TrimStart(s) == IF s # <<>> /\ Head(s) \in Whitespace THEN TrimStart(Tail(s)) ELSE s

RECURSIVE TrimEnd(_)
TrimEnd(s) ==
  IF s # <<>> /\ s[Len(s)] \in Whitespace THEN TrimEnd(SubSeq(s, 1, Len(s) - 1)) ELSE s

trim(s) == TrimEnd(TrimStart(s))

(***************************************************************************)
(* Variable resolution (variable.rs)                                       *)
(***************************************************************************)

NameChars == UpperChars \cup DigitChars \cup {"_"}

\* VARIABLE_RE \$([A-Z_0-9]+)\$ : group 1 of every non-overlapping match, left to right
RECURSIVE CaptureVariablesFrom(_, _)
CaptureVariablesFrom(s, i) ==
  LET End(j) == RunEnd(s, NameChars, j + 1)
      Matches == {j \in i..Len(s) :
                    s[j] = "$" /\ End(j) > j + 1 /\ End(j) <= Len(s) /\ s[End(j)] = "$"}
  IN IF Matches = {} THEN <<>>
     ELSE <<SubSeq(s, Min(Matches) + 1, End(Min(Matches)) - 1)>>
          \o CaptureVariablesFrom(s, End(Min(Matches)) + 1)

variable_names(s) == CaptureVariablesFrom(s, 1)

\* The process environment: std::env::var(name) is Some(value) or None.
Environment ==
  (<<"F">> :> <<"b">>)
  @@ (<<"G">> :> <<"c", "d">>)
  @@ (<<"H">> :> <<"$", "G", "$">>)
  @@ (<<"S">> :> <<"+", "e", "n", "c", "s", "+", "1", "9", "8", "F", "3", "B", "4", "C", "1",
             "B", "8", "E", "0", "6", "D", "8", "3", "8", "C", "C", "3", "F", "A", "6",
             "5", "F", "5", "5", "A", "F", "2", "A">>)
  @@ (<<"T">> :> <<"+", "e", "n", "c", "s", "+", "0", "E", "6", "8", "0", "A", "4", "A", "6",
             "0", "6", "8", "5", "D", "C", "2", "7", "C", "A", "A", "7", "2", "F", "8",
             "E", "C", "7", "C", "B", "D", "5", "5">>)
  @@ (<<"U">> :> <<"+", "e", "n", "c", "s", "+", "A", "1">>)
  @@ (<<"X">> :> <<"+", "e", "n", "c", "s", "+", "g", "0">>)

\* A lookup that finds no variable set (a variant under which C9 fails).
env_var_unset(name) == None

env_var(name) == IF name \in DOMAIN Environment THEN Some(Environment[name]) ELSE None

EncsMarker == <<"+", "e", "n", "c", "s", "+">>

potentially_encrypted(s) ==
  /\ starts_with(s, EncsMarker)
  /\ \A i \in 7..Len(s) : s[i] \in HexChars

\* The key file of the model: the salt, the key and the iv of the key file of
\* the tests of variable.rs.
TheKeyFile ==
  [salt |-> <<"8", "9", "A", "6", "A", "7", "9", "5", "C", "9", "C", "C", "E", "C", "B", "5">>,
   key |-> <<"2", "6", "D", "6", "E", "D", "D", "5", "3", "A", "0", "A", "F", "A", "8",
           "F", "A", "1", "A", "A", "3", "F", "B", "C", "D", "2", "F", "F", "F", "2",
           "A", "0", "B", "F", "4", "8", "0", "9", "A", "4", "E", "0", "4", "5", "1",
           "1", "F", "6", "2", "9", "F", "C", "7", "3", "2", "C", "2", "A", "4", "2",
           "A", "8", "F", "C">>,
   iv |-> <<"4", "7", "2", "A", "3", "5", "5", "7", "A", "D", "D", "D", "2", "5", "2", "5",
          "A", "D", "4", "E", "5", "5", "5", "7", "3", "8", "6", "3", "6", "A", "6", "7">>]

\* A sequence with its elements computed once
Evaluated(seq) == seq \o <<>>

\* hex::decode: the bytes of an even number of hex digits of either case,
\* None for Err (an odd length, a character that is no hex digit)
HexValue(c) ==
  IF c \in DigitChars THEN DigitVal(c)
  ELSE IF c \in {"a", "b", "c", "d", "e", "f"} THEN CharCode(c) - CharCode("a") + 10
  ELSE CharCode(c) - CharCode("A") + 10

decode(s) ==
  IF Len(s) % 2 = 1 \/ \E i \in 1..Len(s) : s[i] \notin HexChars THEN None
  ELSE Some(Evaluated([k \in 1..(Len(s) \div 2) |->
                         16 * HexValue(s[2 * k - 1]) + HexValue(s[2 * k])]))

\* Exclusive or of two bytes, from the exclusive or of two half bytes
RECURSIVE XorBits(_, _, _)
XorBits(a, b, n) ==
  IF n = 0 THEN 0
  ELSE (IF a % 2 = b % 2 THEN 0 ELSE 1) + 2 * XorBits(a \div 2, b \div 2, n - 1)

Xor4 == [a \in 0..15 |-> [b \in 0..15 |-> XorBits(a, b, 4)]]

Xor(a, b) == 16 * Xor4[a \div 16][b \div 16] + Xor4[a % 16][b % 16]

XorBytes(a, b) == Evaluated([i \in 1..Len(a) |-> Xor(a[i], b[i])])

\* The substitution box of AES (FIPS 197, figure 7) and its inverse (figure 14)
SBox ==
  <<99, 124, 119, 123, 242, 107, 111, 197, 48, 1, 103, 43, 254, 215, 171, 118,
    202, 130, 201, 125, 250, 89, 71, 240, 173, 212, 162, 175, 156, 164, 114, 192,
    183, 253, 147, 38, 54, 63, 247, 204, 52, 165, 229, 241, 113, 216, 49, 21,
    4, 199, 35, 195, 24, 150, 5, 154, 7, 18, 128, 226, 235, 39, 178, 117,
    9, 131, 44, 26, 27, 110, 90, 160, 82, 59, 214, 179, 41, 227, 47, 132,
    83, 209, 0, 237, 32, 252, 177, 91, 106, 203, 190, 57, 74, 76, 88, 207,
    208, 239, 170, 251, 67, 77, 51, 133, 69, 249, 2, 127, 80, 60, 159, 168,
    81, 163, 64, 143, 146, 157, 56, 245, 188, 182, 218, 33, 16, 255, 243, 210,
    205, 12, 19, 236, 95, 151, 68, 23, 196, 167, 126, 61, 100, 93, 25, 115,
    96, 129, 79, 220, 34, 42, 144, 136, 70, 238, 184, 20, 222, 94, 11, 219,
    224, 50, 58, 10, 73, 6, 36, 92, 194, 211, 172, 98, 145, 149, 228, 121,
    231, 200, 55, 109, 141, 213, 78, 169, 108, 86, 244, 234, 101, 122, 174, 8,
    186, 120, 37, 46, 28, 166, 180, 198, 232, 221, 116, 31, 75, 189, 139, 138,
    112, 62, 181, 102, 72, 3, 246, 14, 97, 53, 87, 185, 134, 193, 29, 158,
    225, 248, 152, 17, 105, 217, 142, 148, 155, 30, 135, 233, 206, 85, 40, 223,
    140, 161, 137, 13, 191, 230, 66, 104, 65, 153, 45, 15, 176, 84, 187, 22>>

InvSBox ==
  <<82, 9, 106, 213, 48, 54, 165, 56, 191, 64, 163, 158, 129, 243, 215, 251,
    124, 227, 57, 130, 155, 47, 255, 135, 52, 142, 67, 68, 196, 222, 233, 203,
    84, 123, 148, 50, 166, 194, 35, 61, 238, 76, 149, 11, 66, 250, 195, 78,
    8, 46, 161, 102, 40, 217, 36, 178, 118, 91, 162, 73, 109, 139, 209, 37,
    114, 248, 246, 100, 134, 104, 152, 22, 212, 164, 92, 204, 93, 101, 182, 146,
    108, 112, 72, 80, 253, 237, 185, 218, 94, 21, 70, 87, 167, 141, 157, 132,
    144, 216, 171, 0, 140, 188, 211, 10, 247, 228, 88, 5, 184, 179, 69, 6,
    208, 44, 30, 143, 202, 63, 15, 2, 193, 175, 189, 3, 1, 19, 138, 107,
    58, 145, 17, 65, 79, 103, 220, 234, 151, 242, 207, 206, 240, 180, 230, 115,
    150, 172, 116, 34, 231, 173, 53, 133, 226, 249, 55, 232, 28, 117, 223, 110,
    71, 241, 26, 113, 29, 41, 197, 137, 111, 183, 98, 14, 170, 24, 190, 27,
    252, 86, 62, 75, 198, 210, 121, 32, 154, 219, 192, 254, 120, 205, 90, 244,
    31, 221, 168, 51, 136, 7, 199, 49, 177, 18, 16, 89, 39, 128, 236, 95,
    96, 81, 127, 169, 25, 181, 74, 13, 45, 229, 122, 159, 147, 201, 156, 239,
    160, 224, 59, 77, 174, 42, 245, 176, 200, 235, 187, 60, 131, 83, 153, 97,
    23, 43, 4, 126, 186, 119, 214, 38, 225, 105, 20, 99, 85, 33, 12, 125>>

\* Multiplication by x in GF(2^8) modulo x^8 + x^4 + x^3 + x + 1
xtime(a) == IF a >= 128 THEN Xor((2 * a) % 256, 27) ELSE 2 * a

\* Multiplication by 9, 11, 13 and 14 in GF(2^8), the factors of InvMixColumns
Mul9 == [a \in 0..255 |-> Xor(xtime(xtime(xtime(a))), a)]

Mul11 == [a \in 0..255 |-> Xor(Xor(xtime(xtime(xtime(a))), xtime(a)), a)]

Mul13 == [a \in 0..255 |-> Xor(Xor(xtime(xtime(xtime(a))), xtime(xtime(a))), a)]

Mul14 == [a \in 0..255 |-> Xor(Xor(xtime(xtime(xtime(a))), xtime(xtime(a))), xtime(a))]

Rcon == <<1, 2, 4, 8, 16, 32, 64>>

SubWord(w) == Evaluated([i \in 1..4 |-> SBox[w[i] + 1]])

RotWord(w) == <<w[2], w[3], w[4], w[1]>>

\* KeyExpansion for a key of 32 bytes (Nk = 8, Nr = 14): 60 words of 4 bytes
RECURSIVE ExpandKey(_)
ExpandKey(w) ==
  IF Len(w) = 60 THEN w
  ELSE LET i == Len(w)
           temp == IF i % 8 = 0
                   THEN XorBytes(SubWord(RotWord(w[i])), <<Rcon[i \div 8], 0, 0, 0>>)
                   ELSE IF i % 8 = 4 THEN SubWord(w[i])
                   ELSE w[i]
       IN ExpandKey(Append(w, XorBytes(w[i - 7], temp)))

KeyExpansion(key) == ExpandKey(Evaluated([i \in 1..8 |-> SubSeq(key, 4 * i - 3, 4 * i)]))

RoundKey(w, round) ==
  w[4 * round + 1] \o w[4 * round + 2] \o w[4 * round + 3] \o w[4 * round + 4]

\* The state is the block column by column: byte 4c + r + 1 is row r of column c.
InvShiftRows(state) ==
  Evaluated([i \in 1..16 |->
               LET r == (i - 1) % 4
                   c == (i - 1) \div 4
               IN state[4 * ((c + 4 - r) % 4) + r + 1]])

InvSubBytes(state) == Evaluated([i \in 1..16 |-> InvSBox[state[i] + 1]])

InvMixColumns(state) ==
  Evaluated([i \in 1..16 |->
               LET r == (i - 1) % 4
                   c == (i - 1) \div 4
                   a(k) == state[4 * c + ((r + k) % 4) + 1]
               IN Xor(Xor(Mul14[a(0)], Mul11[a(1)]), Xor(Mul13[a(2)], Mul9[a(3)]))])

\* The rounds from the given one down to round 0: inverse shift, inverse
\* substitution and round key, and the inverse column mix in all rounds but
\* the last.  The state of a round is a block of 16 bytes.
RECURSIVE InvRounds(_, _, _)
InvRounds(state, w, round) ==
  LET s == XorBytes(InvSubBytes(InvShiftRows(state)), RoundKey(w, round)) IN
  IF round > 0 /\ Len(s) = 16 THEN InvRounds(InvMixColumns(s), w, round - 1) ELSE s

\* The inverse cipher of AES-256 on one block of 16 bytes
InvCipher(block, w) == InvRounds(XorBytes(block, RoundKey(w, 14)), w, 13)

\* Cipher block chaining: each deciphered block is combined with the block of
\* ciphertext before it, the first with the iv.
CbcDecrypt(data, w, iv) ==
  LET Block(k) == SubSeq(data, 16 * k - 15, 16 * k)
      Plain(k) == XorBytes(InvCipher(Block(k), w), IF k = 1 THEN iv ELSE Block(k - 1))
      RECURSIVE Blocks(_)
      Blocks(k) == IF k > Len(data) \div 16 THEN <<>> ELSE Plain(k) \o Blocks(k + 1)
  IN Blocks(1)

\* The padding of PKCS #7 taken off: None where finalize fails (bad decrypt)
Unpad(bytes) ==
  LET n == bytes[Len(bytes)] IN
  IF n = 0 \/ n > 16 \/ \E i \in (Len(bytes) - n + 1)..Len(bytes) : bytes[i] # n THEN None
  ELSE Some(SubSeq(bytes, 1, Len(bytes) - n))

\* The character with a code point: those of the alphabet by their place in
\* it, any other by its number.
Char(code) ==
  IF code = 9 THEN "\t" ELSE IF code = 10 THEN "\n"
  ELSE IF code >= 32 /\ code <= 126 THEN Ascii[code - 29]
  ELSE "U+" \o ToString(code)

Continuation(b) == b >= 128 /\ b <= 191

\* String::from_utf8: the characters of the bytes, None for Err.  A character
\* starts at every byte that is no continuation byte; its first byte says how
\* many bytes it has, and overlong forms, surrogates and code points above
\* U+10FFFF are refused.
from_utf8(b) ==
  LET Starts == {i \in 1..Len(b) : ~Continuation(b[i])}
      Size(i) ==
        IF b[i] < 128 THEN 1
        ELSE IF b[i] >= 194 /\ b[i] <= 223 THEN 2
        ELSE IF b[i] >= 224 /\ b[i] <= 239 THEN 3
        ELSE IF b[i] >= 240 /\ b[i] <= 244 THEN 4
        ELSE 0
      Valid(i) ==
        /\ Size(i) > 0
        /\ i + Size(i) - 1 <= Len(b)
        /\ \A j \in (i + 1)..(i + Size(i) - 1) : Continuation(b[j])
        /\ i + Size(i) <= Len(b) => i + Size(i) \in Starts
        /\ b[i] = 224 => b[i + 1] >= 160
        /\ b[i] = 237 => b[i + 1] <= 159
        /\ b[i] = 240 => b[i + 1] >= 144
        /\ b[i] = 244 => b[i + 1] <= 143
      Low(k) == b[k] - 128
      Code(i) ==
        IF Size(i) = 1 THEN b[i]
        ELSE IF Size(i) = 2 THEN (b[i] - 192) * 64 + Low(i + 1)
        ELSE IF Size(i) = 3 THEN (b[i] - 224) * 4096 + Low(i + 1) * 64 + Low(i + 2)
        ELSE (b[i] - 240) * 262144 + Low(i + 1) * 4096 + Low(i + 2) * 64 + Low(i + 3)
      Started(x) == x # <<>>
      chars == SelectSeq([i \in 1..Len(b) |->
                            IF i \in Starts THEN <<Char(Code(i))>> ELSE <<>>],
                         Started)
  IN IF (b # <<>> /\ 1 \notin Starts) \/ \E i \in Starts : ~Valid(i) THEN None
     ELSE Some([k \in 1..Len(chars) |-> chars[k][1]])

\* decrypt_str: AES-256-CBC with the key and the iv of the key file on the hex
\* digits after the marker.  Every step is unwrapped, so any failure is a
\* panic: digits that hex::decode refuses in the text, the key or the iv, a key
\* that is not 32 bytes or an iv that is not 16, a ciphertext that is empty or
\* no whole number of blocks, a bad padding, bytes that are not UTF-8.
decrypt_str(s, k) ==
  LET Panic == [panic |-> TRUE]
      Text(chars) == IF chars = None THEN Panic ELSE [panic |-> FALSE, value |-> chars[1]]
      Finalize(unpadded) == IF unpadded = None THEN Panic ELSE Text(from_utf8(unpadded[1]))
      Crypt(data, key, iv) ==
        IF data = None \/ key = None \/ iv = None THEN Panic
        ELSE IF Len(key[1]) # 32 \/ Len(iv[1]) # 16 THEN Panic
        ELSE IF data[1] = <<>> \/ Len(data[1]) % 16 # 0 THEN Panic
        ELSE Finalize(Unpad(CbcDecrypt(data[1], KeyExpansion(key[1]), iv[1])))
  IN Crypt(decode(SubSeq(s, 7, Len(s))), decode(k.key), decode(k.iv))

DecryptPanic(name) == [kind |-> "DecryptPanic", name |-> name]

Found(name, value, secret) ==
  [tag |-> "Found", name |-> name, value |-> value, secret |-> secret]

NotFound(name) ==
  [tag |-> "NotFound", name |-> name, value |-> None, secret |-> None]

\* Variable::from_str: Ok(variable) or Err(NoKeyFileError(name)); [err] also
\* carries the panic of decrypt_str, which unwinds through every caller.
Variable_from_str(s, key_file) ==
  LET env_var_value == env_var(s) IN
  IF env_var_value # None
  THEN LET value == env_var_value[1] IN
       IF potentially_encrypted(value)
       THEN IF key_file # None
            THEN LET Decrypted(d) ==
                       IF d.panic THEN [ok |-> FALSE, err |-> DecryptPanic(s)]
                       ELSE [ok |-> TRUE, var |-> Found(s, Some(value), Some(d.value))]
                 IN Decrypted(decrypt_str(value, key_file[1]))
            ELSE [ok |-> FALSE, err |-> [kind |-> "NoKeyFileError", name |-> s]]
       ELSE [ok |-> TRUE, var |-> Found(s, Some(value), None)]
  ELSE [ok |-> TRUE, var |-> NotFound(s)]

Public(v) == [kind |-> "Public", var |-> v]
Secret(v) == [kind |-> "Secret", var |-> v]

\* derive(Ord) on Variable: Found before NotFound, then the fields in order
VariableLess(a, b) ==
  IF a.tag # b.tag THEN a.tag = "Found"
  ELSE IF a.name # b.name THEN StrLess(a.name, b.name)
  ELSE IF a.value # b.value THEN OptStrLess(a.value, b.value)
  ELSE OptStrLess(a.secret, b.secret)

\* derive(Ord) on VariableKind: Public before Secret, then the variable
VariableKindLess(a, b) ==
  IF a.kind # b.kind THEN a.kind = "Public" ELSE VariableLess(a.var, b.var)

RECURSIVE InsertVariable(_, _)
InsertVariable(sorted, v) ==
  IF sorted = <<>> THEN <<v>>
  ELSE IF VariableKindLess(v, Head(sorted)) THEN <<v>> \o sorted
  ELSE <<Head(sorted)>> \o InsertVariable(Tail(sorted), v)

\* The variables in the order they were pushed (a variant under which C19 fails).
push_order(vs) == vs

\* Vec::sort (stable)
RECURSIVE sort_variables(_)
sort_variables(vs) ==
  IF vs = <<>> THEN <<>>
  ELSE InsertVariable(sort_variables(SubSeq(vs, 1, Len(vs) - 1)), vs[Len(vs)])

\* Vec::dedup: consecutive equal elements collapse to the first
RECURSIVE dedup(_)
dedup(vs) ==
  IF Len(vs) < 2 THEN vs
  ELSE IF vs[1] = vs[2] THEN dedup(Tail(vs))
  ELSE <<vs[1]>> \o dedup(Tail(vs))

Token(name) == <<"$">> \o name \o <<"$">>

Stars == <<"*", "*", "*">>

\* One iteration of the loop of VariableString::from_str over variable_names.
ResolveStep(acc, variable_name, key_file) ==
  LET Resolved(v) ==
        IF v.tag = "Found" /\ v.secret # None
        THEN [acc EXCEPT
                !.obfuscated_string =
                   Some(replace(IF acc.obfuscated_string = None THEN acc.clear_string
                                ELSE acc.obfuscated_string[1],
                                Token(v.name), Stars)),
                !.clear_string = replace(acc.clear_string, Token(v.name), v.secret[1]),
                !.found = Append(acc.found, Secret(v))]
        ELSE IF v.tag = "Found"
        THEN [acc EXCEPT
                !.clear_string = replace(acc.clear_string, Token(v.name), v.value[1]),
                !.found = Append(acc.found, Public(v))]
        ELSE [acc EXCEPT !.missing = Append(acc.missing, Public(v))]
      Step(r) == IF ~r.ok THEN [acc EXCEPT !.err = Some(r.err)] ELSE Resolved(r.var)
  IN Step(Variable_from_str(variable_name, key_file))

RECURSIVE ResolveLoop(_, _, _, _)
ResolveLoop(acc, names, k, key_file) ==
  IF k > Len(names) \/ acc.err # None THEN acc
  ELSE ResolveLoop(ResolveStep(acc, names[k], key_file), names, k + 1, key_file)

\* VariableString::from_str: [err] is Some(error) for Err, else the fields of Ok
VariableString_from_str(s, key_file) ==
  LET NonEmpty(variables) == IF variables = <<>> THEN None ELSE Some(variables)
      Built(acc) ==
        [original_string |-> s,
         clear_string |-> Some(acc.clear_string),
         obfuscated_string |-> acc.obfuscated_string,
         variables_found |-> NonEmpty(dedup(sort_variables(acc.found))),
         variables_not_found |-> NonEmpty(dedup(sort_variables(acc.missing))),
         err |-> acc.err]
  IN Built(ResolveLoop([clear_string |-> s, obfuscated_string |-> None,
                        found |-> <<>>, missing |-> <<>>, err |-> None],
                       variable_names(s), 1, key_file))

to_public_string(v) ==
  IF v.tag = "Found" THEN v.name \o <<"=", "\"">> \o v.value[1] \o <<"\"">> ELSE v.name

to_hidden_string(v) ==
  IF v.tag = "Found" THEN v.name \o <<"=">> \o Stars ELSE v.name

\* VariablesExt::to_string
Variables_to_string(vars) ==
  join([k \in 1..Len(vars) |->
          IF vars[k].kind = "Public" THEN to_public_string(vars[k].var)
          ELSE to_hidden_string(vars[k].var)],
       <<",">>)


(***************************************************************************)
(* Checks, their construction and range expansion (check.rs)               *)
(***************************************************************************)

DEFAULT_TIMEOUT == 5

\* Check::new: no variable lists
Check_new(name, command, timeout) ==
  [name |-> name, command |-> command, timeout |-> timeout,
   variables_found |-> None, variables_not_found |-> None]

\* Variable::from_str of check.rs: Found with the value of the environment, or
\* NotFound; it returns no error.  Found has a name and a value there; the
\* third field is None throughout, which is how the lists of the result show
\* these variables.
check_Variable_from_str(s) ==
  IF env_var(s) # None THEN Found(s, env_var(s), None) ELSE NotFound(s)

\* One iteration of the loop of check.rs's VariableString::from_str: the token
\* of a found variable is replaced by its value, whether or not the value
\* starts with the secret marker.
check_ResolveStep(acc, variable_name) ==
  LET Resolved(v) ==
        IF v.tag = "Found" /\ starts_with(v.value[1], EncsMarker)
        THEN [acc EXCEPT
                !.new_string = replace(acc.new_string, Token(v.name), v.value[1]),
                !.found = Append(acc.found, Secret(v))]
        ELSE IF v.tag = "Found"
        THEN [acc EXCEPT
                !.new_string = replace(acc.new_string, Token(v.name), v.value[1]),
                !.found = Append(acc.found, Public(v))]
        ELSE [acc EXCEPT !.missing = Append(acc.missing, Public(v))]
  IN Resolved(check_Variable_from_str(variable_name))

RECURSIVE check_ResolveLoop(_, _, _)
check_ResolveLoop(acc, names, k) ==
  IF k > Len(names) THEN acc
  ELSE check_ResolveLoop(check_ResolveStep(acc, names[k]), names, k + 1)

\* VariableString::from_str of check.rs, which always returns Ok
check_VariableString_from_str(s) ==
  LET NonEmpty(variables) == IF variables = <<>> THEN None ELSE Some(variables)
      Built(acc) ==
        [original_string |-> s,
         new_string |-> Some(acc.new_string),
         variables_found |-> NonEmpty(dedup(sort_variables(acc.found))),
         variables_not_found |-> NonEmpty(dedup(sort_variables(acc.missing)))]
  IN Built(check_ResolveLoop([new_string |-> s, found |-> <<>>, missing |-> <<>>],
                             variable_names(s), 1))

\* CheckBuilder::with_variables: the name, then the command; the variable lists
\* are those of the command.
with_variables(builder) ==
  LET WithName(b) ==
        IF b.name # None
        THEN [b EXCEPT !.name = check_VariableString_from_str(b.name[1]).new_string]
        ELSE b
      WithCommand(b, new_command) ==
        [b EXCEPT !.command = new_command.new_string,
                  !.variables_found = new_command.variables_found,
                  !.variables_not_found = new_command.variables_not_found]
  IN IF builder.command # None
     THEN WithCommand(WithName(builder), check_VariableString_from_str(builder.command[1]))
     ELSE WithName(builder)

\* CheckBuilder::build: the Check; there is no error to return
CheckBuilder_build(builder) ==
  LET Build(b) ==
        [name |-> unwrap_or_default(b.name),
         command |-> unwrap_or_default(b.command),
         timeout |-> IF b.timeout = None THEN 0 ELSE b.timeout[1],
         variables_found |-> b.variables_found,
         variables_not_found |-> b.variables_not_found]
  IN Build(with_variables(builder))

\* yaml_or_panic on a key whose value is a string: yaml_to_optional_string
\* trims it.
yaml_or_panic(text) == trim(text)

\* CheckBuilder::new().name(..).command(..).timeout(..) of main on an entry of
\* a template
EntryBuilder(entry) ==
  [name |-> Some(yaml_or_panic(entry.name)), command |-> Some(yaml_or_panic(entry.command)),
   timeout |-> Some(entry.timeout), variables_found |-> None, variables_not_found |-> None]

Range_new(name, start, end) == [name |-> name, start |-> start, end |-> end]

\* RANGE_RE !!(A|B):([0-9]+)\.\.([0-9]+)!! matched at i: the index after the
\* match and the range, or 0 when there is no match at i.  [panic] when a
\* bound does not parse as i32 (the unwrap of extract_ranges).
MatchRangeAt(s, i) ==
  LET d1 == RunEnd(s, DigitChars, i + 4)
      d2 == RunEnd(s, DigitChars, d1 + 2)
  IN IF /\ MatchAt(s, <<"!", "!">>, i)
        /\ i + 3 <= Len(s)
        /\ s[i + 2] \in {"A", "B"}
        /\ s[i + 3] = ":"
        /\ d1 > i + 4
        /\ MatchAt(s, <<".", ".">>, d1)
        /\ d2 > d1 + 2
        /\ MatchAt(s, <<"!", "!">>, d2)
     THEN LET Matched(start, end) ==
                IF start = None \/ end = None THEN [next |-> d2 + 2, panic |-> TRUE]
                ELSE [next |-> d2 + 2, panic |-> FALSE,
                      range |-> Range_new(<<s[i + 2]>>, start[1], end[1])]
          IN Matched(parse_i32(SubSeq(s, i + 4, d1 - 1)),
                     parse_i32(SubSeq(s, d1 + 2, d2 - 1)))
     ELSE [next |-> 0, panic |-> FALSE]

\* The matches from i on, appended to ranges; the first bound that does not
\* parse ends the loop with a panic.
RECURSIVE ExtractRangesFrom(_, _, _)
ExtractRangesFrom(s, i, ranges) ==
  LET Matches == {j \in i..Len(s) : MatchRangeAt(s, j).next # 0}
      Matched(m) ==
        IF m.panic THEN [panic |-> TRUE, ranges |-> <<>>]
        ELSE ExtractRangesFrom(s, m.next, Append(ranges, m.range))
  IN IF Matches = {} THEN [panic |-> FALSE, ranges |-> ranges]
     ELSE Matched(MatchRangeAt(s, Min(Matches)))

\* extract_ranges: [ranges] in textual order, or [panic] when a bound of a
\* placeholder is above i32::MAX
extract_ranges(s) == ExtractRangesFrom(s, 1, <<>>)

ParseIntPanic == "ParseIntError { kind: PosOverflow }"

\* derive(Ord) on Range: name, start, end
RangeLess(a, b) ==
  IF a.name # b.name THEN StrLess(a.name, b.name)
  ELSE IF a.start # b.start THEN a.start < b.start
  ELSE a.end < b.end

RECURSIVE InsertRange(_, _)
InsertRange(sorted, r) ==
  IF sorted = <<>> THEN <<r>>
  ELSE IF RangeLess(r, Head(sorted)) THEN <<r>> \o sorted
  ELSE <<Head(sorted)>> \o InsertRange(Tail(sorted), r)

\* Ranges left in textual order (a variant under which C10 fails).
sort_ranges_textual(rs) == rs

RECURSIVE sort_ranges(_)
sort_ranges(rs) ==
  IF rs = <<>> THEN <<>>
  ELSE InsertRange(sort_ranges(SubSeq(rs, 1, Len(rs) - 1)), rs[Len(rs)])

\* format!("!!{}:{}..{}!!", range.name, range.start, range.end)
Placeholder(range) ==
  <<"!", "!">> \o range.name \o <<":">> \o to_string(range.start) \o <<".", ".">>
  \o to_string(range.end) \o <<"!", "!">>

\* i..=end of a Rust inclusive range, as a sequence
RangeValues(range) ==
  [k \in 1..(IF range.end >= range.start THEN range.end - range.start + 1 ELSE 0)
     |-> range.start + k - 1]

expand_checks_from_single_range(check, range) ==
  LET is == RangeValues(range) IN
  [k \in 1..Len(is) |->
     LET i == is[k]
         name == replace(check.name, Placeholder(range), to_string(i))
         command == replace(check.command, Placeholder(range), to_string(i))
     IN Check_new(name, command, check.timeout)]

expand_checks_from_double_range(check, range1, range2) ==
  LET is == RangeValues(range1)
      js == RangeValues(range2)
  IN [k \in 1..(Len(is) * Len(js)) |->
        LET i == is[((k - 1) \div Len(js)) + 1]
            j == js[((k - 1) % Len(js)) + 1]
            name == replace(replace(check.name, Placeholder(range1), to_string(i)),
                            Placeholder(range2), to_string(j))
            command == replace(replace(check.command, Placeholder(range1), to_string(i)),
                               Placeholder(range2), to_string(j))
        IN Check_new(name, command, check.timeout)]

\* An expansion driven by the ranges of the name alone, whatever their number
\* (a variant under which C11 fails).
expand_ranges_unchecked(check) ==
  LET Expanded(ranges) ==
        IF extract_ranges(check.name).panic
        THEN [panic |-> Some(ParseIntPanic), checks |-> <<>>]
        ELSE IF ranges = <<>> THEN [panic |-> None, checks |-> <<check>>]
        ELSE IF Len(ranges) = 1
        THEN [panic |-> None, checks |-> expand_checks_from_single_range(check, ranges[1])]
        ELSE [panic |-> None,
              checks |-> expand_checks_from_double_range(check, ranges[1], ranges[2])]
  IN Expanded(dedup(sort_ranges(extract_ranges(check.name).ranges)))

\* Check::expand_ranges: [panic] is Some(message) when it panics
expand_ranges(check) ==
  LET Expanded(name_ranges, command_ranges) ==
        IF extract_ranges(check.name).panic \/ extract_ranges(check.command).panic
        THEN [panic |-> Some(ParseIntPanic), checks |-> <<>>]
        ELSE IF name_ranges # command_ranges
        THEN [panic |-> Some("Ranges in name and command do not match"),
              checks |-> <<>>]
        ELSE IF name_ranges = <<>> THEN [panic |-> None, checks |-> <<check>>]
        ELSE IF Len(name_ranges) = 1
        THEN [panic |-> None,
              checks |-> expand_checks_from_single_range(check, name_ranges[1])]
        ELSE IF Len(name_ranges) = 2
        THEN [panic |-> None,
              checks |-> expand_checks_from_double_range(check, name_ranges[1],
                                                         name_ranges[2])]
        ELSE [panic |-> Some("Only 1 or 2 ranges are supported"), checks |-> <<>>]
  IN Expanded(dedup(sort_ranges(extract_ranges(check.name).ranges)),
              dedup(sort_ranges(extract_ranges(check.command).ranges)))


(***************************************************************************)
(* Shell word splitting (the shellwords crate, as called by Check::run and *)
(* ProcessedCheckResults::from_check_result)                               *)
(***************************************************************************)

AllChars == {Ascii[k] : k \in 1..Len(Ascii)}

PlainChars == AllChars \ (Whitespace \cup {"\\", "'", "\""})

\* index of the first c in s at or after i, 0 if there is none
RECURSIVE IndexFrom(_, _, _)
IndexFrom(s, c, i) ==
  IF i > Len(s) THEN 0 ELSE IF s[i] = c THEN i ELSE IndexFrom(s, c, i + 1)

\* "((?:[^"\\]|\\.)*)" : index of the closing quote of a body starting at i, or 0
RECURSIVE DoubleQuoteEnd(_, _)
DoubleQuoteEnd(s, i) ==
  IF i > Len(s) THEN 0
  ELSE IF s[i] = "\"" THEN i
  ELSE IF s[i] = "\\"
  THEN IF i + 1 <= Len(s) /\ s[i + 1] # "\n" THEN DoubleQuoteEnd(s, i + 2) ELSE 0
  ELSE DoubleQuoteEnd(s, i + 1)

\* METACHAR_PATTERN \\([$`"\\\n]) replaced by its group
RECURSIVE UnescapeMeta(_)
UnescapeMeta(s) ==
  IF s = <<>> THEN <<>>
  ELSE IF Len(s) >= 2 /\ s[1] = "\\" /\ s[2] \in {"$", "U+96", "\"", "\\", "\n"}
  THEN <<s[2]>> \o UnescapeMeta(SubSeq(s, 3, Len(s)))
  ELSE <<s[1]>> \o UnescapeMeta(Tail(s))

\* One alternative of MAIN_PATTERN at j (s[j] is not whitespace): the text it adds
\* to the field and the index after it, or a mismatched quote.
WordPiece(s, j) ==
  LET c == s[j] IN
  IF c = "'"
  THEN LET k == IndexFrom(s, "'", j + 1) IN
       IF k = 0 THEN [ok |-> FALSE]
       ELSE [ok |-> TRUE, text |-> SubSeq(s, j + 1, k - 1), next |-> k + 1]
  ELSE IF c = "\""
  THEN LET k == DoubleQuoteEnd(s, j + 1) IN
       IF k = 0 THEN [ok |-> FALSE]
       ELSE [ok |-> TRUE, text |-> UnescapeMeta(SubSeq(s, j + 1, k - 1)), next |-> k + 1]
  ELSE IF c = "\\"
  THEN IF j + 1 <= Len(s) /\ s[j + 1] # "\n"
       THEN [ok |-> TRUE, text |-> <<s[j + 1]>>, next |-> j + 2]
       ELSE [ok |-> TRUE, text |-> <<"\\">>, next |-> j + 1]
  ELSE LET e == RunEnd(s, PlainChars, j) IN
       [ok |-> TRUE, text |-> SubSeq(s, j, e - 1), next |-> e]

RECURSIVE SplitFrom(_, _, _, _)
SplitFrom(s, i, field, words) ==
  LET j == RunEnd(s, Whitespace, i) IN
  IF j > Len(s) THEN Some(words)
  ELSE LET piece == WordPiece(s, j) IN
       IF ~piece.ok THEN None
       ELSE LET f == field \o piece.text IN
            IF piece.next > Len(s) THEN Some(Append(words, f))
            ELSE IF s[piece.next] \in Whitespace
            THEN SplitFrom(s, piece.next + 1, <<>>, Append(words, f))
            ELSE SplitFrom(s, piece.next, f, words)

\* shellwords::split: Some(words) for Ok, None for Err(MismatchedQuotes)
shellwords_split(s) == SplitFrom(s, 1, <<>>, <<>>)

(***************************************************************************)
(* The programs a command line can name (what Command::spawn starts)       *)
(***************************************************************************)

\* e: prints its arguments and exits 0.  c: prints them and exits 2.
\* g: prints them and is killed by a signal (no exit code).
\* z: sleeps without end.  Any other name: no such executable.
Executables == {<<"e">>, <<"c">>, <<"g">>, <<"z">>}

Program(cmd_vec) ==
  LET cmd == cmd_vec[1]
      args == Tail(cmd_vec)
      printed == join(args, <<" ">>) \o <<"\n">>
  IN [exists |-> cmd \in Executables,
      exits |-> cmd \in {<<"e">>, <<"c">>, <<"g">>},
      code |-> IF cmd = <<"e">> THEN Some(0) ELSE IF cmd = <<"c">> THEN Some(2) ELSE None,
      stdout |-> IF cmd \in {<<"e">>, <<"c">>, <<"g">>} THEN printed ELSE <<>>]

(***************************************************************************)
(* Results (result.rs)                                                     *)
(***************************************************************************)

escape_commas(s) == replace(s, <<",">>, <<"\\", ",">>)

escape_newlines(s) == replace(s, <<"\n">>, <<"\\", "n">>)

escape_chars(s) == escape_newlines(escape_commas(s))

\* str::lines
RECURSIVE lines(_)
lines(s) ==
  IF s = <<>> THEN <<>>
  ELSE LET k == IndexFrom(s, "\n", 1) IN
       IF k = 0 THEN <<s>>
       ELSE <<SubSeq(s, 1, k - 1)>> \o lines(SubSeq(s, k + 1, Len(s)))

extract_short_output(output) ==
  LET ls == lines(output)
      first_line == IF ls = <<>> THEN <<>> ELSE ls[1]
      bar == IndexFrom(first_line, "|", 1)
  IN IF bar # 0 THEN trim(SubSeq(first_line, 1, bar - 1)) ELSE trim(first_line)

extract_long_output(output) ==
  LET ls == lines(output) IN
  trim(join(IF ls = <<>> THEN <<>> ELSE Tail(ls), <<"\n">>))

UsageBanners ==
  { <<"U", "s", "a", "g", "e", ":", " ", "c", "h", "e", "c", "k">>,
    <<"[", "-", "h", "|", "-", "-", "h", "e", "l", "p", "]">>,
    <<"u", "s", "a", "g", "e", ":", " ", "c", "h", "e", "c", "k">> }

\* The text after the first '|' whatever the output says (a variant under which
\* C18 fails).
performance_data_ignoring_banner(output) ==
  LET i == IndexFrom(output, "|", 1) IN
  IF i = 0 THEN None ELSE Some(trim(SubSeq(output, i + 1, Len(output))))

extract_performance_data(output) ==
  IF \E b \in UsageBanners : contains(output, b) THEN None
  ELSE LET i == IndexFrom(output, "|", 1) IN
       IF i = 0 THEN None ELSE Some(trim(SubSeq(output, i + 1, Len(output))))

\* CheckResultBuilder::new().name().command().variables_found().variables_not_found()
CheckResultBuilder_new(name, command, variables_found, variables_not_found) ==
  [name |-> Some(name), command |-> Some(command), secret_command |-> None,
   status |-> None, short_output |-> None, long_output |-> None,
   performance_data |-> None, execution_time |-> None,
   variables_found |-> variables_found, variables_not_found |-> variables_not_found]

parse_output(data, output) ==
  [data EXCEPT
     !.short_output = Some(extract_short_output(output)),
     !.long_output = Some(extract_long_output(output)),
     !.performance_data = Some(unwrap_or_default(extract_performance_data(output)))]

\* n in decimal, padded with zeros to the given width
ZeroPad(n, width) ==
  [k \in 1..(width - Len(to_string(n))) |-> "0"] \o to_string(n)

\* format!("{:.4} s", execution_time.as_secs_f64()): the Duration is given in
\* ten-thousandths of a second, the digits that the format keeps.
with_execution_time(data, execution_time) ==
  [data EXCEPT
     !.execution_time =
        Some(to_string(execution_time \div 10000) \o <<".">>
             \o ZeroPad(execution_time % 10000, 4) \o <<" ", "s">>)]

CheckResultBuilder_build(data) ==
  [name |-> escape_chars(unwrap_or_default(data.name)),
   command |-> escape_chars(unwrap_or_default(data.command)),
   secret_command |->
      IF data.secret_command # None THEN escape_chars(data.secret_command[1])
      ELSE unwrap_or_default(data.command),
   status |-> data.status,
   short_output |-> escape_chars(unwrap_or_default(data.short_output)),
   long_output |-> escape_chars(unwrap_or_default(data.long_output)),
   performance_data |-> unwrap_or_default(data.performance_data),
   execution_time |-> unwrap_or_default(data.execution_time),
   variables_found |-> data.variables_found,
   variables_not_found |-> data.variables_not_found]

\* The message without the singular form (a variant under which C3 fails).
timeout_msg_plural(timeout) ==
  <<"U", "N", "K", "N", "O", "W", "N", ":", " ", "T", "i", "m", "e", "d", " ",
    "o", "u", "t", " ", "a", "f", "t", "e", "r", " ">>
  \o to_string(timeout) \o <<" ", "s", "e", "c", "o", "n", "d", "s">>

\* TimeoutMessage's Display, chosen by the match on self.timeout in Check::run
timeout_msg(timeout) ==
  IF timeout = 1
  THEN <<"U", "N", "K", "N", "O", "W", "N", ":", " ", "T", "i", "m", "e", "d", " ",
         "o", "u", "t", " ", "a", "f", "t", "e", "r", " ", "1", " ",
         "s", "e", "c", "o", "n", "d">>
  ELSE <<"U", "N", "K", "N", "O", "W", "N", ":", " ", "T", "i", "m", "e", "d", " ",
         "o", "u", "t", " ", "a", "f", "t", "e", "r", " ">>
       \o to_string(timeout) \o <<" ", "s", "e", "c", "o", "n", "d", "s">>


(***************************************************************************)
(* Performance data fields and row projection (result.rs)                  *)
(***************************************************************************)

\* the fields of s between occurrences of the character c
RECURSIVE SplitOn(_, _)
SplitOn(s, c) ==
  LET k == IndexFrom(s, c, 1) IN
  IF k = 0 THEN <<s>>
  ELSE <<SubSeq(s, 1, k - 1)>> \o SplitOn(SubSeq(s, k + 1, Len(s)), c)

RECURSIVE TrimMatchesStart(_, _)
TrimMatchesStart(s, c) ==
  IF s # <<>> /\ Head(s) = c THEN TrimMatchesStart(Tail(s), c) ELSE s

RECURSIVE TrimMatchesEnd(_, _)
TrimMatchesEnd(s, c) ==
  IF s # <<>> /\ s[Len(s)] = c THEN TrimMatchesEnd(SubSeq(s, 1, Len(s) - 1), c) ELSE s

trim_matches(s, c) == TrimMatchesEnd(TrimMatchesStart(s, c), c)

\* ([^=]+)=([^=]+): group 1 of the leftmost match, single quotes trimmed
label(perf) ==
  LET f == SplitOn(perf, "=")
      J == {j \in 1..(Len(f) - 1) : f[j] # <<>> /\ f[j + 1] # <<>>}
  IN IF J = {} THEN None
     ELSE Some(trim_matches(f[CHOOSE j \in J : \A k \in J : j <= k], "'"))

NumChars == DigitChars \cup {"."}

RECURSIVE Pow10(_)
Pow10(n) == IF n = 0 THEN 1 ELSE 10 * Pow10(n - 1)

\* The f64 a decimal text denotes: mant / 10^exp, where the last of the exp
\* decimals is not a zero (the numbers of the model have fewer significant
\* digits than an f64 holds, so that no two of them are the same f64).
RECURSIVE F64(_, _)
F64(mant, exp) ==
  IF exp > 0 /\ mant % 10 = 0 THEN F64(mant \div 10, exp - 1)
  ELSE [mant |-> mant, exp |-> exp]

\* f64 < f64
F64Less(a, b) ==
  LET e == IF a.exp > b.exp THEN a.exp ELSE b.exp IN
  a.mant * Pow10(e - a.exp) < b.mant * Pow10(e - b.exp)

\* f64::from_str of a run of digits and dots: every decimal is kept
parse_f64(s) ==
  LET dots == {k \in 1..Len(s) : s[k] = "."} IN
  IF Cardinality(dots) > 1 \/ Len(s) - Cardinality(dots) < 1 THEN None
  ELSE LET d == IF dots = {} THEN Len(s) + 1 ELSE CHOOSE k \in dots : TRUE
           whole == SubSeq(s, 1, d - 1)
           frac == SubSeq(s, d + 1, Len(s))
       IN Some(F64(DigitsValue(whole \o frac), Len(frac)))

\* ([^=;]+)=?([0-9.]+): group 2 of the leftmost match starting at or after p
RECURSIVE ValueGroupFrom(_, _)
ValueGroupFrom(s, p) ==
  LET b == RunEnd(s, {"=", ";"}, p)
      e == RunEnd(s, AllChars \ {"=", ";"}, b)
      J == {j \in (b + 1)..(e - 1) : s[j] \in NumChars}
  IN IF b > Len(s) THEN None
     ELSE IF e + 1 <= Len(s) /\ s[e] = "=" /\ s[e + 1] \in NumChars
     THEN Some(SubSeq(s, e + 1, RunEnd(s, NumChars, e + 1) - 1))
     ELSE IF J # {} THEN Some(<<s[CHOOSE j \in J : \A k \in J : k <= j]>>)
     ELSE ValueGroupFrom(s, e)

value(perf) ==
  LET g == ValueGroupFrom(perf, 1) IN
  IF g = None THEN None ELSE parse_f64(g[1])

UomLeft == DigitChars \cup {"'", "="}

\* ([0-9'=]+)([^0-9'=; ]+)([ ;]|$): group 2 of the leftmost match at or after p
RECURSIVE UomFrom(_, _)
UomFrom(s, p) ==
  LET b == RunEnd(s, AllChars \ UomLeft, p)
      e == RunEnd(s, UomLeft, b)
      u == RunEnd(s, AllChars \ (UomLeft \cup {";", " "}), e)
  IN IF b > Len(s) THEN None
     ELSE IF u > e /\ (u > Len(s) \/ s[u] \in {" ", ";"}) THEN Some(SubSeq(s, e, u - 1))
     ELSE UomFrom(s, e)

uom(perf) == UomFrom(perf, 1)

\* ([^;]*;)([^;]+;){n-1}([^;]+)(.*): the last field group of the leftmost match
SemicolonField(perf, n) ==
  LET f == SplitOn(perf, ";")
      J == {j \in 2..(Len(f) - n + 1) : \A k \in j..(j + n - 1) : f[k] # <<>>}
  IN IF J = {} THEN None
     ELSE Some(f[(CHOOSE j \in J : \A k \in J : j <= k) + n - 1])

warn(perf) == SemicolonField(perf, 1)

crit(perf) == SemicolonField(perf, 2)

min(perf) == SemicolonField(perf, 3)

max(perf) == SemicolonField(perf, 4)

\* A bound of a threshold range: an optional sign and a number
ThresholdNumber(s) ==
  IF s # <<>> /\ Head(s) = "-"
  THEN LET n == IF \A k \in 2..Len(s) : s[k] \in NumChars THEN parse_f64(Tail(s)) ELSE None
       IN IF n = None THEN None ELSE Some(F64(0 - n[1].mant, n[1].exp))
  ELSE IF \A k \in 1..Len(s) : s[k] \in NumChars THEN parse_f64(s) ELSE None

\* perfdata::ThresholdRange::from_str for [@]start:end.  An absent start is the
\* lower infinity ("~"), an absent end the upper infinity.
ThresholdRange_from_str(s) ==
  LET inside == s # <<>> /\ Head(s) = "@"
      body == IF inside THEN Tail(s) ELSE s
      colon == IndexFrom(body, ":", 1)
      start_s == IF colon = 0 THEN <<>> ELSE SubSeq(body, 1, colon - 1)
      end_s == IF colon = 0 THEN body ELSE SubSeq(body, colon + 1, Len(body))
      start == IF start_s = <<>> THEN Some(Some(F64(0, 0)))
               ELSE IF start_s = <<"~">> THEN Some(None)
               ELSE IF ThresholdNumber(start_s) = None THEN None
               ELSE Some(ThresholdNumber(start_s))
      end == IF end_s = <<>> THEN (IF colon = 0 THEN None ELSE Some(None))
             ELSE IF ThresholdNumber(end_s) = None THEN None
             ELSE Some(ThresholdNumber(end_s))
  IN IF start = None \/ end = None THEN [ok |-> FALSE]
     ELSE [ok |-> TRUE, inside |-> inside, start |-> start[1], end |-> end[1]]

\* ThresholdRange::is_alert
is_alert(range, v) ==
  LET outside == \/ (range.start # None /\ F64Less(v, range.start[1]))
                 \/ (range.end # None /\ F64Less(range.end[1], v))
  IN IF range.inside THEN ~outside ELSE outside

ProcessedCheckResult_default ==
  [name |-> <<>>, status |-> None, short_output |-> <<>>, label |-> None,
   value |-> None, uom |-> None, warn |-> None, crit |-> None, min |-> None,
   max |-> None, command |-> <<>>, performance_data_string |-> <<>>,
   long_output |-> <<>>, execution_time |-> <<>>, variables_found |-> None,
   variables_not_found |-> None]

add_performance_data(row, perf) ==
  [row EXCEPT !.label = label(perf), !.value = value(perf), !.uom = uom(perf),
              !.warn = warn(perf), !.crit = crit(perf), !.min = min(perf),
              !.max = max(perf)]

\* Threshold evaluation that overrides a reported status (a variant under which C6 fails).
status_from_perfdata_unconditional(row) ==
  IF row.value = None THEN [panic |-> FALSE, row |-> row]
  ELSE LET Threshold(s) == IF s = None THEN [ok |-> FALSE] ELSE ThresholdRange_from_str(s[1])
           Status(c, w) ==
             IF c.ok /\ is_alert(c, row.value[1])
             THEN [panic |-> FALSE, row |-> [row EXCEPT !.status = Some(2)]]
             ELSE IF w.ok /\ is_alert(w, row.value[1])
             THEN [panic |-> FALSE, row |-> [row EXCEPT !.status = Some(1)]]
             ELSE [panic |-> FALSE, row |-> [row EXCEPT !.status = Some(0)]]
       IN Status(Threshold(row.crit), Threshold(row.warn))

\* status_from_perfdata: [panic] when a threshold does not parse (the unwrap)
status_from_perfdata(row) ==
  IF row.status # None \/ row.value = None THEN [panic |-> FALSE, row |-> row]
  ELSE LET Threshold(s) == IF s = None THEN [ok |-> TRUE, absent |-> TRUE]
                           ELSE ThresholdRange_from_str(s[1])
           Alert(s, range) == s # None /\ range.ok /\ is_alert(range, row.value[1])
           Status(c, w) ==
             IF ~c.ok THEN [panic |-> TRUE, row |-> row]
             ELSE IF Alert(row.crit, c)
             THEN [panic |-> FALSE, row |-> [row EXCEPT !.status = Some(2)]]
             ELSE IF ~w.ok THEN [panic |-> TRUE, row |-> row]
             ELSE IF Alert(row.warn, w)
             THEN [panic |-> FALSE, row |-> [row EXCEPT !.status = Some(1)]]
             ELSE [panic |-> FALSE, row |-> [row EXCEPT !.status = Some(0)]]
       IN Status(Threshold(row.crit), Threshold(row.warn))

\* CheckResult::variables_found / variables_not_found
VariablesColumn(vars) ==
  IF vars # None /\ vars[1] # <<>> THEN Some(escape_chars(Variables_to_string(vars[1])))
  ELSE None

\* A main row without the short output (a variant under which C14 fails).
main_entry_without_short_output(check_result) ==
  [ProcessedCheckResult_default EXCEPT
     !.name = check_result.name,
     !.command = check_result.command,
     !.status = check_result.status,
     !.long_output = check_result.long_output,
     !.performance_data_string = escape_chars(check_result.performance_data),
     !.execution_time = check_result.execution_time,
     !.variables_found = VariablesColumn(check_result.variables_found),
     !.variables_not_found = VariablesColumn(check_result.variables_not_found)]

main_entry_from_check_result(check_result) ==
  [ProcessedCheckResult_default EXCEPT
     !.name = check_result.name,
     !.command = check_result.command,
     !.status = check_result.status,
     !.short_output = check_result.short_output,
     !.long_output = check_result.long_output,
     !.performance_data_string = escape_chars(check_result.performance_data),
     !.execution_time = check_result.execution_time,
     !.variables_found = VariablesColumn(check_result.variables_found),
     !.variables_not_found = VariablesColumn(check_result.variables_not_found)]

\* A secondary row that repeats the command and the performance-data string of
\* the check (a variant under which C13 fails).
secondary_entry_with_command(check_result, lbl) ==
  [ProcessedCheckResult_default EXCEPT
     !.name = <<"\t">> \o check_result.name \o <<"#">> \o lbl,
     !.command = check_result.command,
     !.performance_data_string = escape_chars(check_result.performance_data)]

secondary_entry_from_check_result(check_result, lbl) ==
  [ProcessedCheckResult_default EXCEPT
     !.name = <<"\t">> \o check_result.name \o <<"#">> \o lbl]

\* ProcessedCheckResults::from_check_result: [panic] or the rows
from_check_result(check_result) ==
  LET Entry(entry, perf) == status_from_perfdata(add_performance_data(entry, perf))
      Secondary(perf) ==
        Entry(secondary_entry_from_check_result(check_result,
                                                unwrap_or_default(label(perf))),
              perf)
      Single(single) ==
        [panic |-> single.panic, rows |-> IF single.panic THEN <<>> ELSE <<single.row>>]
      Multiple(main, entries) ==
        IF \E k \in 1..Len(entries) : entries[k].panic
        THEN [panic |-> TRUE, rows |-> <<>>]
        ELSE [panic |-> FALSE,
              rows |-> <<main>> \o [k \in 1..Len(entries) |-> entries[k].row]]
      Entries(main, perf_metrics) ==
        IF Len(perf_metrics) = 0 THEN [panic |-> FALSE, rows |-> <<main>>]
        ELSE IF Len(perf_metrics) = 1 THEN Single(Entry(main, perf_metrics[1]))
        ELSE Multiple(main, [k \in 1..Len(perf_metrics) |-> Secondary(perf_metrics[k])])
      Split(split) ==
        IF split = None THEN [panic |-> TRUE, rows |-> <<>>]
        ELSE Entries(main_entry_from_check_result(check_result), split[1])
  IN Split(shellwords_split(check_result.performance_data))

\* CheckResults::process
RECURSIVE process(_)
process(results) ==
  IF results = <<>> THEN [panic |-> FALSE, rows |-> <<>>]
  ELSE LET Rows(first, rest) ==
             IF first.panic \/ rest.panic THEN [panic |-> TRUE, rows |-> <<>>]
             ELSE [panic |-> FALSE, rows |-> first.rows \o rest.rows]
       IN Rows(from_check_result(Head(results)), process(Tail(results)))


(***************************************************************************)
(* Log messages (the log crate's debug! and error! calls)                  *)
(***************************************************************************)

\* {:?} of a str: the text between quotes, with the quote, the backslash, the
\* newline and the tab escaped
DebugStr(s) ==
  <<"\"">>
  \o Concat([k \in 1..Len(s) |->
               CASE s[k] = "\"" -> <<"\\", "\"">>
                 [] s[k] = "\\" -> <<"\\", "\\">>
                 [] s[k] = "\n" -> <<"\\", "n">>
                 [] s[k] = "\t" -> <<"\\", "t">>
                 [] OTHER -> <<s[k]>>])
  \o <<"\"">>

\* The PadAdapter of {:#?}: every line of a nested value is indented by four
\* spaces
PadAdapter(s) ==
  LET ls == SplitOn(s, "\n") IN
  join([k \in 1..Len(ls) |-> <<" ", " ", " ", " ">> \o ls[k]], <<"\n">>)

\* {:#?} of a tuple, a list or a struct: each item on its own lines, indented
\* and followed by a comma
DebugItems(open, items, close) ==
  open \o <<"\n">>
  \o Concat([k \in 1..Len(items) |-> PadAdapter(items[k]) \o <<",", "\n">>])
  \o close

\* {:#?} of an Option, given the text of its value
DebugOpt(o) ==
  IF o = None THEN <<"N", "o", "n", "e">>
  ELSE DebugItems(<<"S", "o", "m", "e", "(">>, o, <<")">>)

DebugOptStr(o) == IF o = None THEN DebugOpt(None) ELSE DebugOpt(Some(DebugStr(o[1])))

KindTag(v) ==
  IF v.kind = "Public" THEN <<"P", "u", "b", "l", "i", "c", "(">>
  ELSE <<"S", "e", "c", "r", "e", "t", "(">>

\* derive(Debug) on Variable and VariableKind, in the form {:#?}
DebugVariable(v) ==
  DebugItems(
    KindTag(v),
    <<IF v.var.tag = "Found"
      THEN DebugItems(<<"F", "o", "u", "n", "d", "(">>,
                      <<DebugStr(v.var.name), DebugOptStr(v.var.value),
                        DebugOptStr(v.var.secret)>>,
                      <<")">>)
      ELSE DebugItems(<<"N", "o", "t", "F", "o", "u", "n", "d", "(">>,
                      <<DebugStr(v.var.name)>>, <<")">>)>>,
    <<")">>)

\* {:#?} of an Option<Variables>
DebugVariables(vars) ==
  IF vars = None THEN DebugOpt(None)
  ELSE DebugOpt(Some(IF vars[1] = <<>> THEN <<"[", "]">>
                     ELSE DebugItems(<<"[">>,
                                     [k \in 1..Len(vars[1]) |-> DebugVariable(vars[1][k])],
                                     <<"]">>)))

\* derive(Debug) on CheckResultBuilder, in the form {:#?}
DebugBuilder(data) ==
  DebugItems(
    <<"C", "h", "e", "c", "k", "R", "e", "s", "u", "l", "t", "B", "u", "i", "l", "d", "e", "r", " ", "{">>,
    <<<<"n", "a", "m", "e", ":", " ">> \o DebugOptStr(data.name),
      <<"c", "o", "m", "m", "a", "n", "d", ":", " ">> \o DebugOptStr(data.command),
      <<"s", "e", "c", "r", "e", "t", "_", "c", "o", "m", "m", "a", "n", "d", ":", " ">> \o DebugOptStr(data.secret_command),
      <<"s", "t", "a", "t", "u", "s", ":", " ">>
        \o (IF data.status = None THEN DebugOpt(None)
            ELSE DebugOpt(Some(to_string(data.status[1])))),
      <<"s", "h", "o", "r", "t", "_", "o", "u", "t", "p", "u", "t", ":", " ">> \o DebugOptStr(data.short_output),
      <<"l", "o", "n", "g", "_", "o", "u", "t", "p", "u", "t", ":", " ">> \o DebugOptStr(data.long_output),
      <<"p", "e", "r", "f", "o", "r", "m", "a", "n", "c", "e", "_", "d", "a", "t", "a", ":", " ">>
        \o DebugOptStr(data.performance_data),
      <<"e", "x", "e", "c", "u", "t", "i", "o", "n", "_", "t", "i", "m", "e", ":", " ">>
        \o DebugOptStr(data.execution_time),
      <<"v", "a", "r", "i", "a", "b", "l", "e", "s", "_", "f", "o", "u", "n", "d", ":", " ">>
        \o DebugVariables(data.variables_found),
      <<"v", "a", "r", "i", "a", "b", "l", "e", "s", "_", "n", "o", "t", "_", "f", "o", "u", "n", "d", ":", " ">>
        \o DebugVariables(data.variables_not_found)>>,
    <<"}">>)

\* {:?} of the argument slice
DebugArgs(args) ==
  <<"[">> \o join([k \in 1..Len(args) |-> DebugStr(args[k])], <<",", " ">>) \o <<"]">>

Debug(text) == [level |-> "debug", text |-> text]

\* print! to stdout
Stdout(text) == [level |-> "stdout", text |-> text]

Error(text) == [level |-> "error", text |-> text]

\* The debug! lines of Check::run up to the split, and those after it
RunningCheckLog(data) ==
  {Debug(<<"R", "u", "n", "n", "i", "n", "g", " ", "c", "h", "e", "c", "k", ":", " ">> \o DebugBuilder(data))}

CommandLog(cmd_vec, timeout) ==
  {Debug(<<"C", "o", "m", "m", "a", "n", "d", ":", " ">> \o cmd_vec[1]),
   Debug(<<"A", "r", "g", "u", "m", "e", "n", "t", "s", ":", " ">> \o DebugArgs(Tail(cmd_vec))),
   Debug(<<"N", "u", "m", "b", "e", "r", " ", "o", "f", " ", "a", "r", "g", "u", "m", "e", "n", "t", "s", ":", " ">> \o to_string(Len(cmd_vec) - 1)),
   Debug(<<"T", "i", "m", "e", "o", "u", "t", ":", " ">> \o to_string(timeout))}


(***************************************************************************)
(* The batch: template entries, main, and the tasks that run the checks    *)
(***************************************************************************)

\* Entries of a template file: name, command, timeout.
OkEntry ==
  [name |-> <<"a">>,
   command |-> <<"e", " ", "'", "o", "|", "x", "=", "9", ";", "5", ";", "7", "'">>,
   timeout |-> DEFAULT_TIMEOUT]

SleepEntry ==
  [name |-> <<"s">>,
   command |-> <<"z", "\n">>,
   timeout |-> 1]

MissingEntry ==
  [name |-> <<"n">>,
   command |-> <<"q">>,
   timeout |-> DEFAULT_TIMEOUT]

MultiPerfEntry ==
  [name |-> <<"p">>,
   command |-> <<"c", " ", "'", "o", "|", "x", "=", "6", ";", "5", ";", "7", " ", "y", "=", "1", ";", "5", ";", "7", "'">>,
   timeout |-> 2]

SinglePerfEntry ==
  [name |-> <<"k">>,
   command |-> <<"g", " ", "'", "o", "|", "x", "=", "9", ";", "5", ";", "7", "'">>,
   timeout |-> 0]

VariablesEntry ==
  [name |-> <<"$", "F", "$">>,
   command |-> <<"e", " ", "$", "F", "$", " ", "$", "M", "$">>,
   timeout |-> DEFAULT_TIMEOUT]

SecretEntry ==
  [name |-> <<"n", "$", "S", "$">>,
   command |-> <<"e", " ", "$", "S", "$">>,
   timeout |-> DEFAULT_TIMEOUT]

MalformedEntry ==
  [name |-> <<"w">>,
   command |-> <<"c", " ", "'", "o", "|", "x", "=", "6", ";", "5", ";", "7", " ", "y", "=", "1", ";", "a", ";", "7", "'">>,
   timeout |-> DEFAULT_TIMEOUT]

EmptyEntry ==
  [name |-> <<"b">>,
   command |-> <<" ">>,
   timeout |-> DEFAULT_TIMEOUT]

QuoteEntry ==
  [name |-> <<"u">>,
   command |-> <<"e", " ", "'">>,
   timeout |-> DEFAULT_TIMEOUT]

MismatchEntry ==
  [name |-> <<"m">>,
   command |-> <<"e", " ", "!", "!", "A", ":", "1", ".", ".", "2", "!", "!">>,
   timeout |-> DEFAULT_TIMEOUT]

ThreeRangesEntry ==
  [name |-> <<"!", "!", "A", ":", "1", ".", ".", "2", "!", "!", "!", "!", "B", ":", "1", ".", ".", "2", "!", "!", "!", "!", "A", ":", "3", ".", ".", "4", "!", "!">>,
   command |-> <<"e", " ", "!", "!", "A", ":", "1", ".", ".", "2", "!", "!", "!", "!", "B", ":", "1", ".", ".", "2", "!", "!", "!", "!", "A", ":", "3", ".", ".", "4", "!", "!">>,
   timeout |-> DEFAULT_TIMEOUT]

RangeEntry ==
  [name |-> <<"r", "!", "!", "A", ":", "1", ".", ".", "2", "!", "!">>,
   command |-> <<"z", " ", "!", "!", "A", ":", "1", ".", ".", "2", "!", "!">>,
   timeout |-> 0]

Entries ==
  {OkEntry, SleepEntry, MissingEntry, MultiPerfEntry, SinglePerfEntry, VariablesEntry,
   SecretEntry, MalformedEntry, EmptyEntry, QuoteEntry, MismatchEntry, ThreeRangesEntry,
   RangeEntry}

MaxEntries == 2

Batches == UNION {[1..n -> Entries] : n \in 0..MaxEntries}

VARIABLES pc, key_file, key_writes, allow_empty_vars, sequential, templates, built, checks,
          task, child, spawned, run, out, results, rows, log, failure, panics, input, output

vars == <<pc, key_file, key_writes, allow_empty_vars, sequential, templates, built, checks,
          task, child, spawned, run, out, results, rows, log, failure, panics, input, output>>

main_vars == <<pc, key_file, key_writes, allow_empty_vars, sequential, templates, built, checks,
               task, child, spawned, run, out, results, rows, log, failure, panics>>

\* main has not started.
MainIdle ==
  /\ pc = "start"
  /\ key_file = None
  /\ key_writes = 0
  /\ allow_empty_vars = None
  /\ sequential = FALSE
  /\ templates = <<>>
  /\ built = 0
  /\ checks = <<>>
  /\ task = <<>>
  /\ child = <<>>
  /\ spawned = <<>>
  /\ run = <<>>
  /\ out = <<>>
  /\ results = <<>>
  /\ rows = <<>>
  /\ log = {}
  /\ failure = None
  /\ panics = {}

Init ==
  /\ MainIdle
  /\ input = None
  /\ output = None


Failure(kind, name, check) == Some([kind |-> kind, name |-> name, check |-> check])

AllowEmptyVarsMsg ==
  <<"T", "h", "e", " ", "o", "p", "t", "i", "o", "n", " ", "-", "-", "a", "l", "l", "o",
    "w", "-", "e", "m", "p", "t", "y", "-", "v", "a", "r", "s", " ", "i", "s", " ", "s",
    "e", "t", ".", " ", "A", "l", "l", "o", "w", "i", "n", "g", " ", "e", "m", "p", "t",
    "y", " ", "o", "r", " ", "u", "n", "s", "e", "t", " ", "v", "a", "r", "i", "a", "b",
    "l", "e", "s", "!">>

KeyFileReadMsg ==
  <<"F", "a", "i", "l", "e", "d", " ", "t", "o", " ", "r", "e", "a", "d", " ", "k", "e",
    "y", " ", "f", "i", "l", "e", ":", " ">>

KeyFileLoadedMsg ==
  <<"L", "o", "a", "d", "e", "d", " ", "k", "e", "y", " ", "f", "i", "l", "e", " ", "f",
    "r", "o", "m", " ", "t", "h", "e", " ", "p", "r", "o", "v", "i", "d", "e", "d", " ",
    "p", "a", "t", "h", ":", " ">>

KeyFileParseMsg ==
  <<"F", "a", "i", "l", "e", "d", " ", "t", "o", " ", "p", "a", "r", "s", "e", " ", "k",
    "e", "y", " ", "f", "i", "l", "e", " ">>

\* The path main reads when --key-file is not given
DEFAULT_KEY_FILE ==
  <<"/", "o", "p", "t", "/", "i", "t", "r", "s", "/", "x", "t", "e", "n", "d", "e", "r",
    "/", "s", "e", "c", "r", "e", "t", ".", "k", "e", "y">>

DefaultKeyFileLoadedMsg ==
  <<"L", "o", "a", "d", "e", "d", " ", "d", "e", "f", "a", "u", "l", "t", " ", "k", "e",
    "y", " ", "f", "i", "l", "e", " ", "f", "r", "o", "m", " ">>

DefaultKeyFileParseMsg ==
  <<"F", "a", "i", "l", "e", "d", " ", "t", "o", " ", "p", "a", "r", "s", "e", " ", "d",
    "e", "f", "a", "u", "l", "t", " ", "k", "e", "y", " ", "f", "i", "l", "e", " ">>

NoKeyFileMsg ==
  <<"-", "-", "k", "e", "y", "-", "f", "i", "l", "e", " ", "o", "p", "t", "i", "o", "n",
    " ", "n", "o", "t", " ", "u", "s", "e", "d", ",", " ", "a", "n", "d", " ", "n", "o",
    " ", "d", "e", "f", "a", "u", "l", "t", " ", "k", "e", "y", " ", "f", "i", "l", "e",
    " ", "f", "o", "u", "n", "d", ".", " ", "N", "o", " ", "d", "e", "c", "r", "y", "p",
    "t", "i", "o", "n", " ", "w", "i", "l", "l", " ", "b", "e", " ", "p", "o", "s", "s",
    "i", "b", "l", "e", ".">>

MissingSaltMsg ==
  <<"T", "h", "e", " ", "k", "e", "y", " ", "f", "i", "l", "e", " ", "i", "s", " ", "m",
    "i", "s", "s", "i", "n", "g", " ", "t", "h", "e", " ", "s", "a", "l", "t", ",", " ",
    "t", "h", "i", "s", " ", "i", "s", " ", "n", "o", "t", " ", "a", " ", "p", "r", "o",
    "b", "l", "e", "m", ".">>

OpspackReadMsg ==
  <<"F", "a", "i", "l", "e", "d", " ", "t", "o", " ", "r", "e", "a", "d", " ", "f", "i",
    "l", "e", ":", " ">>

\* Display of the io::Error of a path that does not exist
NotFoundError ==
  <<"N", "o", " ", "s", "u", "c", "h", " ", "f", "i", "l", "e", " ", "o", "r", " ", "d",
    "i", "r", "e", "c", "t", "o", "r", "y", " ", "(", "o", "s", " ", "e", "r", "r", "o",
    "r", " ", "2", ")">>

OpspackParseMsg ==
  <<"F", "a", "i", "l", "e", "d", " ", "t", "o", " ", "p", "a", "r", "s", "e", " ", "O",
    "p", "s", "p", "a", "c", "k", " ", "f", "r", "o", "m", " ", "j", "s", "o", "n", ":",
    " ">>

NoServicechecksError ==
  <<"N", "o", " ", "s", "e", "r", "v", "i", "c", "e", "c", "h", "e", "c", "k", "s", " ",
    "f", "o", "u", "n", "d">>

SequentialMsg ==
  <<"R", "u", "n", "n", "i", "n", "g", " ", "c", "h", "e", "c", "k", "s", " ", "s",
    "e", "q", "u", "e", "n", "t", "i", "a", "l", "l", "y">>

ParallelMsg ==
  <<"R", "u", "n", "n", "i", "n", "g", " ", "c", "h", "e", "c", "k", "s", " ", "i",
    "n", " ", "p", "a", "r", "a", "l", "l", "e", "l">>

\* Display of KeyFileParseError
KeyFileParseError_Display(e) ==
  IF e.kind = "InvalidLine" THEN <<"I", "n", "v", "a", "l", "i", "d", " ", "l", "i", "n", "e", ":", " ">> \o e.line
  ELSE IF e.kind = "MissingKey"
    THEN <<"M", "i", "s", "s", "i", "n", "g", " ", "k", "e", "y", ",", " ", "n", "o", " ", "l", "i", "n", "e", " ", "s", "t", "a", "r", "t", "i", "n", "g", " ", "w", "i", "t", "h", " ", "\"", "k", "e", "y", "=", "\"", " ", "f", "o", "u", "n", "d">>
  ELSE IF e.kind = "MissingIv"
    THEN <<"M", "i", "s", "s", "i", "n", "g", " ", "i", "v", ",", " ", "n", "o", " ", "l", "i", "n", "e", " ", "s", "t", "a", "r", "t", "i", "n", "g", " ", "w", "i", "t", "h", " ", "\"", "i", "v", " ", "=", "\"", " ", "f", "o", "u", "n", "d">>
  ELSE <<"K", "e", "y", " ", "f", "i", "l", "e", " ", "t", "o", "o", " ", "l", "o", "n", "g", ",", " ", "e", "x", "p", "e", "c", "t", "e", "d", " ", "2", "-", "3", " ", "l", "i", "n", "e", "s", ",", " ">>
       \o to_string(e.length) \o <<" ", "l", "i", "n", "e", "s", " ", "f", "o", "u", "n", "d">>

\* The loop of KeyFile::from_str over the lines: the values after "salt=",
\* "key=" and "iv =", or the first line that starts with none of them
RECURSIVE KeyFileLines(_, _)
KeyFileLines(ls, kf) ==
  IF ls = <<>> THEN kf
  ELSE IF starts_with(Head(ls), <<"s", "a", "l", "t", "=">>)
    THEN KeyFileLines(Tail(ls), [kf EXCEPT !.salt = Some(SubSeq(Head(ls), 6, Len(Head(ls))))])
  ELSE IF starts_with(Head(ls), <<"k", "e", "y", "=">>)
    THEN KeyFileLines(Tail(ls), [kf EXCEPT !.key = Some(SubSeq(Head(ls), 5, Len(Head(ls))))])
  ELSE IF starts_with(Head(ls), <<"i", "v", " ", "=">>)
    THEN KeyFileLines(Tail(ls), [kf EXCEPT !.iv = Some(SubSeq(Head(ls), 5, Len(Head(ls))))])
  ELSE [kf EXCEPT !.err = Some([kind |-> "InvalidLine", line |-> Head(ls)])]

\* KeyFile::from_str: [err] is Some(error) for Err, else [key_file] is the
\* KeyFile; [log] holds the debug line of a file without salt.
KeyFile_from_str(s) ==
  LET ls == lines(TrimMatchesEnd(s, "\n"))
      Parsed(kf) ==
        IF kf.err # None THEN [err |-> kf.err, log |-> {}]
        ELSE IF kf.key = None
          THEN [err |-> Some([kind |-> "MissingKey"]),
                log |-> IF kf.salt = None THEN {Debug(MissingSaltMsg)} ELSE {}]
        ELSE IF kf.iv = None
          THEN [err |-> Some([kind |-> "MissingIv"]),
                log |-> IF kf.salt = None THEN {Debug(MissingSaltMsg)} ELSE {}]
        ELSE [err |-> None,
              log |-> IF kf.salt = None THEN {Debug(MissingSaltMsg)} ELSE {},
              key_file |-> [salt |-> unwrap_or_default(kf.salt), key |-> kf.key[1],
                            iv |-> kf.iv[1]]]
  IN IF Len(ls) > 3 THEN [err |-> Some([kind |-> "FileTooLong", length |-> Len(ls)]), log |-> {}]
     ELSE Parsed(KeyFileLines(ls, [salt |-> None, key |-> None, iv |-> None, err |-> None]))

\* The text of the key file of the tests of variable.rs
KeyFileText ==
  <<"s", "a", "l", "t", "=">> \o TheKeyFile.salt \o <<"\n">>
  \o <<"k", "e", "y", "=">> \o TheKeyFile.key \o <<"\n">>
  \o <<"i", "v", " ", "=">> \o TheKeyFile.iv \o <<"\n">>

\* A key file: the text above, a text whose line is no key-file line, a text
\* without iv, and a text of four lines
KeyFileTexts ==
  {KeyFileText,
   <<"x">>,
   <<"k", "e", "y", "=">> \o TheKeyFile.key \o <<"\n">>,
   <<"s", "a", "l", "t", "=", "\n", "k", "e", "y", "=", "\n", "i", "v", " ", "=", "\n", "x", "\n">>}

\* What a path holds: None when it cannot be read, else its text
KeyFiles == {None} \cup {Some(t) : t \in KeyFileTexts}

KeyFilePath == <<"k">>

OpspackPath == <<"o">>

\* The opspack of tests/cli.rs and the template the program prints for it
SAMPLE_OPSPACK_JSON ==
  <<"{", "\n", " ", " ", "\"", "h", "o", "s", "t", "t", "e", "m", "p", "l", "a", "t", "e",
    "\"", ":", " ", "[", "\n", " ", " ", " ", " ", "{", "\n", " ", " ", " ", " ", " ", " ",
    "\"", "n", "a", "m", "e", "\"", ":", " ", "\"", "C", "h", "e", "c", "k", " ", "H", "T",
    "T", "P", "\"", ",", "\n", " ", " ", " ", " ", " ", " ", "\"", "d", "e", "s", "c", "r",
    "i", "p", "t", "i", "o", "n", "\"", ":", " ", "\"", "C", "h", "e", "c", "k", " ", "H",
    "T", "T", "P", "\"", ",", "\n", " ", " ", " ", " ", " ", " ", "\"", "p", "l", "u", "g",
    "i", "n", "\"", ":", " ", "{", "\n", " ", " ", " ", " ", " ", " ", " ", " ", "\"", "n",
    "a", "m", "e", "\"", ":", " ", "\"", "c", "h", "e", "c", "k", "_", "h", "t", "t", "p",
    "\"", "\n", " ", " ", " ", " ", " ", " ", "}", "\n", " ", " ", " ", " ", "}", "\n",
    " ", " ", "]", ",", "\n", " ", " ", "\"", "s", "e", "r", "v", "i", "c", "e", "c", "h",
    "e", "c", "k", "\"", ":", " ", "[", "\n", " ", " ", " ", " ", "{", "\n", " ", " ", " ",
    " ", " ", " ", "\"", "n", "a", "m", "e", "\"", ":", " ", "\"", "C", "h", "e", "c", "k",
    " ", "H", "T", "T", "P", "\"", ",", "\n", " ", " ", " ", " ", " ", " ", "\"", "a", "r",
    "g", "s", "\"", ":", " ", "\"", "-", "H", " ", "$", "H", "O", "S", "T", "A", "D", "D",
    "R", "E", "S", "S", ":", "1", "$", " ", "-", "u", " ", "%", "U", "R", "L", ":", "1",
    "%", "\"", ",", "\n", " ", " ", " ", " ", " ", " ", "\"", "p", "l", "u", "g", "i", "n",
    "\"", ":", " ", "{", "\n", " ", " ", " ", " ", " ", " ", " ", " ", "\"", "n", "a", "m",
    "e", "\"", ":", " ", "\"", "c", "h", "e", "c", "k", "_", "h", "t", "t", "p", "\"",
    "\n", " ", " ", " ", " ", " ", " ", "}", "\n", " ", " ", " ", " ", "}", "\n", " ", " ",
    "]", "\n", "}", "\n">>

SAMPLE_OPSPACK_AS_TEMPLATE ==
  <<"#", " ", "n", "a", "m", "e", ":", " ", "C", "h", "e", "c", "k", " ", "H", "T", "T",
    "P", "\n", "#", " ", "d", "e", "s", "c", "r", "i", "p", "t", "i", "o", "n", ":", " ",
    "C", "h", "e", "c", "k", " ", "H", "T", "T", "P", "\n", "-", " ", "n", "a", "m", "e",
    ":", " ", "C", "h", "e", "c", "k", " ", "H", "T", "T", "P", "\n", " ", " ", "c", "o",
    "m", "m", "a", "n", "d", ":", " ", "|", "\n", " ", " ", " ", " ", "c", "h", "e", "c",
    "k", "_", "h", "t", "t", "p", " ", "-", "H", " ", "$", "H", "O", "S", "T", "A", "D",
    "D", "R", "E", "S", "S", "_", "1", "$", " ", "-", "u", " ", "$", "U", "R", "L", "_",
    "1", "$", "\n">>

\* Opspack::from_json followed by to_xtender_template: the template of the
\* opspack of tests/cli.rs; a JSON value without "servicecheck" is an error; a
\* text that is no JSON makes the unwrap of serde_json::from_str panic.
OpspackTexts == {SAMPLE_OPSPACK_JSON, <<"{", "}">>, <<>>}

OpspackFiles == {None} \cup {Some(t) : t \in OpspackTexts}

\* The command lines: the options and the batch of the templates after "--";
\* --opspack excludes every other argument.
CommandLines ==
  [allow_empty_vars : BOOLEAN, key_file : {None, Some(KeyFilePath)}, opspack : {None},
   sequential : BOOLEAN, templates : Batches]
  \cup [allow_empty_vars : {FALSE}, key_file : {None}, opspack : {Some(OpspackPath)},
        sequential : {FALSE}, templates : {<<>>}]

\* The files main can read before the templates: the file --key-file names,
\* the default key file, the file --opspack names.  A file no option names is
\* taken as absent.
FileSystems(args) ==
  [key_file : IF args.key_file # None THEN KeyFiles ELSE {None},
   default_key_file : KeyFiles,
   opspack : IF args.opspack # None THEN OpspackFiles ELSE {None}]

\* The outcome of reading one key file: [writes] counts the writes to KEY_FILE.
KeyFileLoaded(r, loaded_msg, parse_msg, path) ==
  IF r.err = None
  THEN [exit |-> FALSE, key_file |-> Some(r.key_file), writes |-> 1, kind |-> "",
        log |-> r.log \cup {Debug(loaded_msg \o path)}]
  ELSE [exit |-> TRUE, key_file |-> None, writes |-> 0, kind |-> "KeyFileParseError",
        log |-> r.log \cup {Error(parse_msg \o path \o <<":", " ">>
                                   \o KeyFileParseError_Display(r.err[1]))}]

\* A start of main that reads the default key file after the file of
\* --key-file as well (a variant under which C23 fails).
ReadBothKeyFiles(args, files) ==
  LET allow == IF args.allow_empty_vars THEN {Debug(AllowEmptyVarsMsg)} ELSE {}
      Provided == KeyFileLoaded(KeyFile_from_str(files.key_file[1]), KeyFileLoadedMsg,
                                KeyFileParseMsg, args.key_file[1])
      Default == KeyFileLoaded(KeyFile_from_str(files.default_key_file[1]),
                               DefaultKeyFileLoadedMsg, DefaultKeyFileParseMsg,
                               DEFAULT_KEY_FILE)
      Both(first, second) ==
        IF first.exit THEN [first EXCEPT !.log = allow \cup @]
        ELSE [second EXCEPT !.log = allow \cup first.log \cup @,
                            !.writes = first.writes + @,
                            !.key_file = IF second.key_file = None THEN first.key_file ELSE @]
      Nothing == [exit |-> FALSE, key_file |-> None, writes |-> 0, kind |-> "", log |-> {}]
  IN IF args.key_file # None /\ files.key_file = None
     THEN [exit |-> TRUE, key_file |-> None, writes |-> 0, kind |-> "KeyFileReadError",
           log |-> allow \cup {Error(KeyFileReadMsg \o args.key_file[1])}]
     ELSE Both(IF args.key_file # None THEN Provided ELSE Nothing,
               IF files.default_key_file # None THEN Default
               ELSE [Nothing EXCEPT
                       !.log = IF args.key_file = None THEN {Debug(NoKeyFileMsg)} ELSE {}])

\* main.rs:139-187: ALLOW_EMPTY_VARS is set (the cell is set nowhere else, so
\* set does not fail), then the key file is read from the path of --key-file
\* or else from the default path, and written to KEY_FILE when it parses.
\* [exit] is TRUE where main calls exit(1).
ReadKeyFile(args, files) ==
  LET allow == IF args.allow_empty_vars THEN {Debug(AllowEmptyVarsMsg)} ELSE {}
      Read(k) == [k EXCEPT !.log = allow \cup @]
  IN IF args.key_file # None
     THEN IF files.key_file = None
          THEN [exit |-> TRUE, key_file |-> None, writes |-> 0, kind |-> "KeyFileReadError",
                log |-> allow \cup {Error(KeyFileReadMsg \o args.key_file[1])}]
          ELSE Read(KeyFileLoaded(KeyFile_from_str(files.key_file[1]), KeyFileLoadedMsg,
                                  KeyFileParseMsg, args.key_file[1]))
     ELSE IF files.default_key_file # None
          THEN Read(KeyFileLoaded(KeyFile_from_str(files.default_key_file[1]),
                                  DefaultKeyFileLoadedMsg, DefaultKeyFileParseMsg,
                                  DEFAULT_KEY_FILE))
          ELSE [exit |-> FALSE, key_file |-> None, writes |-> 0, kind |-> "",
                log |-> allow \cup {Debug(NoKeyFileMsg)}]

\* main.rs:189-216: --opspack prints the template of the opspack and exits
\* with 0, or logs why it cannot and exits with 1.
ConvertOpspack(file) ==
  IF file = None
  THEN [pc |-> "exited", kind |-> "OpspackReadError",
        log |-> {Error(OpspackReadMsg \o NotFoundError)}]
  ELSE IF file[1] = SAMPLE_OPSPACK_JSON
  THEN [pc |-> "converted", kind |-> "", log |-> {Stdout(SAMPLE_OPSPACK_AS_TEMPLATE)}]
  ELSE IF file[1] = <<"{", "}">>
  THEN [pc |-> "exited", kind |-> "OpspackParseError",
        log |-> {Error(OpspackParseMsg \o NoServicechecksError)}]
  ELSE [pc |-> "panicked", kind |-> "OpspackJsonPanic", log |-> {}]

\* The exits of main before the template loop
LoadErrors ==
  {"KeyFileReadError", "KeyFileParseError", "OpspackReadError", "OpspackParseError",
   "OpspackJsonPanic"}

\* main up to the template loop: the arguments are parsed, ALLOW_EMPTY_VARS is
\* set, the key file, if any, is read and written to KEY_FILE, and --opspack is
\* served.  A key file that cannot be read or does not parse ends the run, and
\* so does --opspack.
LoadKeyFileFrom(args, files) ==
  LET Load(k, o) ==
        /\ key_file' = k.key_file
        /\ key_writes' = key_writes + k.writes
        /\ log' = log \cup k.log \cup (IF ~k.exit /\ args.opspack # None THEN o.log ELSE {})
        /\ failure' = IF k.exit THEN Failure(k.kind, <<>>, 0)
                      ELSE IF args.opspack # None /\ o.kind # "" THEN Failure(o.kind, <<>>, 0)
                      ELSE None
        /\ pc' = IF k.exit THEN "exited"
                 ELSE IF args.opspack # None THEN o.pc
                 ELSE "build"
  IN /\ templates' = args.templates
     /\ sequential' = args.sequential
     /\ allow_empty_vars' = Some(args.allow_empty_vars)
     /\ Load(ReadKeyFile(args, files), ConvertOpspack(files.opspack))
     /\ UNCHANGED <<built, checks, task, child, spawned, run, out, results, rows, panics,
                    input, output>>

LoadKeyFile ==
  /\ pc = "start"
  /\ \E args \in CommandLines : \E files \in FileSystems(args) : LoadKeyFileFrom(args, files)

\* One iteration of the loop over the template's entries: build, then expand.
\* The build of check.rs returns the check, so that the Err arm of main's match
\* is never taken.
BuildCheck ==
  /\ pc = "build"
  /\ built < Len(templates)
  /\ LET c == CheckBuilder_build(EntryBuilder(templates[built + 1])) IN
     /\ expand_ranges(c).panic = None
     /\ checks' = checks \o expand_ranges(c).checks
  /\ built' = built + 1
  /\ UNCHANGED <<pc, key_file, key_writes, allow_empty_vars, sequential, templates, task,
                 child, spawned, run, out, results, rows, log, failure, panics, input, output>>

\* expand_ranges panics: a bound above i32::MAX, the ranges of name and command
\* differ, or more than two
ExpandPanics ==
  /\ pc = "build"
  /\ built < Len(templates)
  /\ LET c == CheckBuilder_build(EntryBuilder(templates[built + 1])) IN
     /\ expand_ranges(c).panic # None
     /\ failure' = Failure(expand_ranges(c).panic[1], <<>>, 0)
  /\ pc' = "panicked"
  /\ UNCHANGED <<key_file, key_writes, allow_empty_vars, sequential, templates, built, checks,
                 task, child, spawned, run, out, results, rows, log, panics, input, output>>

\* Check::run has not started: nothing is known of the child yet.
NotRun == [timed_out |-> FALSE, status |-> None, execution_time |-> None]

\* All entries are built: main calls run_all_checks_sequentially or _in_parallel.
StartRun ==
  /\ pc = "build"
  /\ built = Len(templates)
  /\ pc' = "run"
  /\ task' = [i \in 1..Len(checks) |-> "idle"]
  /\ child' = [i \in 1..Len(checks) |-> "none"]
  /\ spawned' = [i \in 1..Len(checks) |-> 0]
  /\ run' = [i \in 1..Len(checks) |-> NotRun]
  /\ out' = [i \in 1..Len(checks) |-> None]
  /\ log' = log \cup {Debug(IF sequential THEN SequentialMsg ELSE ParallelMsg)}
  /\ UNCHANGED <<key_file, key_writes, allow_empty_vars, sequential, templates, built, checks,
                 results, rows, failure, panics, input, output>>

\* Check::run starts for check i: at once in its own blocking task in parallel
\* mode, after the run of check i - 1 has returned in sequential mode.
CanStart(i) ==
  /\ pc = "run"
  /\ task[i] = "idle"
  /\ sequential => \A j \in 1..(i - 1) : task[j] = "returned"

RunData(check) ==
  CheckResultBuilder_new(check.name, check.command, check.variables_found,
                         check.variables_not_found)

\* shellwords::split(&self.command)
CmdVec(check) == shellwords_split(check.command)

\* Why Check::run panics before it has a child process, "" if it does not
RunPanic(check) ==
  IF CmdVec(check) = None THEN "Failed to split command"
  ELSE IF CmdVec(check)[1] = <<>> THEN "After splitting the command by words, the command is empty"
  ELSE IF ~Program(CmdVec(check)[1]).exists THEN "Failed to execute command"
  ELSE ""

\* Check::run up to and including the spawn of the child process and the
\* reading of start_time
Spawn(i) ==
  /\ CanStart(i)
  /\ RunPanic(checks[i]) = ""
  /\ log' = log \cup RunningCheckLog(RunData(checks[i]))
                \cup CommandLog(CmdVec(checks[i])[1], checks[i].timeout)
  /\ spawned' = [spawned EXCEPT ![i] = @ + 1]
  /\ child' = [child EXCEPT ![i] = "running"]
  /\ task' = [task EXCEPT ![i] = "waiting"]
  /\ UNCHANGED <<pc, key_file, key_writes, allow_empty_vars, sequential, templates, built,
                 checks, run, out, results, rows, failure, panics, input, output>>

\* Check::run panics at the split, the emptiness test or the spawn.  In
\* sequential mode the panic is main's; in parallel mode it ends the task.
RunPanics(i) ==
  /\ CanStart(i)
  /\ RunPanic(checks[i]) # ""
  /\ log' = log \cup RunningCheckLog(RunData(checks[i]))
                \cup (IF CmdVec(checks[i]) # None /\ CmdVec(checks[i])[1] # <<>>
                      THEN CommandLog(CmdVec(checks[i])[1], checks[i].timeout) ELSE {})
  /\ panics' = panics \cup {[check |-> i, kind |-> RunPanic(checks[i])]}
  /\ task' = [task EXCEPT ![i] = "panicked"]
  /\ pc' = IF sequential THEN "panicked" ELSE pc
  /\ failure' = IF sequential THEN Failure(RunPanic(checks[i]), <<>>, i) ELSE failure
  /\ UNCHANGED <<key_file, key_writes, allow_empty_vars, sequential, templates, built, checks,
                 child, spawned, run, out, results, rows, input, output>>

\* The child process of check i exits by itself.
ChildExits(i) ==
  /\ pc = "run"
  /\ child[i] = "running"
  /\ Program(CmdVec(checks[i])[1]).exits
  /\ child' = [child EXCEPT ![i] = "exited"]
  /\ UNCHANGED <<pc, key_file, key_writes, allow_empty_vars, sequential, templates, built,
                 checks, task, spawned, run, out, results, rows, log, failure, panics, input,
                 output>>

\* start_time.elapsed() is a reading of the clock: any time may have passed.
\* The readings are in ten-thousandths of a second, the unit in which the
\* execution time is written.  A reading is exact up to MaxElapsed after the
\* earliest time at which it can be taken; [later] is TRUE for the readings
\* after that, which the model does not tell apart.
MaxElapsed == 1

ClockReadings(earliest) ==
  {[ticks |-> earliest + d, later |-> FALSE] : d \in 0..MaxElapsed}
  \cup {[ticks |-> earliest + MaxElapsed, later |-> TRUE]}

\* start_time.elapsed() when wait_timeout returns the status of a child that
\* exited: from 0.0000 s on
ExitTimes == ClockReadings(0)

\* The time after the deadline at which start_time.elapsed() is read on the
\* timeout path: from no time at all on
KillLatencies == ClockReadings(0)

\* The reading a latency after the deadline of a timeout in seconds
AfterDeadline(timeout, latency) == [latency EXCEPT !.ticks = timeout * 10000 + @]

\* with_execution_time of a reading: the text of an exact reading; for the
\* later readings the text of the last exact one after ">".
with_elapsed(data, reading) ==
  IF reading.later
  THEN [data EXCEPT
          !.execution_time =
             Some(<<">">> \o with_execution_time(data, reading.ticks).execution_time[1])]
  ELSE with_execution_time(data, reading.ticks)

\* The result of a run whose child exited within the timeout with the exit
\* code status (None when a signal ended it) and wrote stdout
ExitResult(check, status, stdout, elapsed) ==
  LET data == RunData(check)
      with_status == IF status # None THEN [data EXCEPT !.status = status] ELSE data
  IN CheckResultBuilder_build(with_elapsed(parse_output(with_status, stdout), elapsed))

\* The result of a run whose child was killed at the deadline
TimedOutResult(check, elapsed) ==
  CheckResultBuilder_build(
    with_elapsed(
      [RunData(check) EXCEPT !.status = Some(3),
                             !.short_output = Some(timeout_msg(check.timeout))],
      elapsed))

\* wait_timeout returns Some(status): the child has exited and is reaped.
StatusArrives(i) ==
  /\ pc = "run"
  /\ task[i] = "waiting"
  /\ child[i] = "exited"
  /\ child' = [child EXCEPT ![i] = "reaped"]
  /\ run' = [run EXCEPT ![i].status = Program(CmdVec(checks[i])[1]).code]
  /\ task' = [task EXCEPT ![i] = "elapsed"]
  /\ UNCHANGED <<pc, key_file, key_writes, allow_empty_vars, sequential, templates, built,
                 checks, spawned, out, results, rows, log, failure, panics, input, output>>

\* wait_timeout returns None: the deadline has passed and the child runs.
DeadlinePasses(i) ==
  /\ pc = "run"
  /\ task[i] = "waiting"
  /\ child[i] = "running"
  /\ run' = [run EXCEPT ![i].timed_out = TRUE]
  /\ task' = [task EXCEPT ![i] = "kill"]
  /\ UNCHANGED <<pc, key_file, key_writes, allow_empty_vars, sequential, templates, built,
                 checks, child, spawned, out, results, rows, log, failure, panics, input,
                 output>>

\* child.kill(): the child is gone, not yet waited for.
Kill(i) ==
  /\ pc = "run"
  /\ task[i] = "kill"
  /\ child' = [child EXCEPT ![i] = "exited"]
  /\ task' = [task EXCEPT ![i] = "elapsed"]
  /\ UNCHANGED <<pc, key_file, key_writes, allow_empty_vars, sequential, templates, built,
                 checks, spawned, run, out, results, rows, log, failure, panics, input,
                 output>>

\* execution_time = start_time.elapsed(), in either arm of the match on
\* wait_timeout
Elapsed(i) ==
  /\ pc = "run"
  /\ task[i] = "elapsed"
  /\ \E reading \in IF run[i].timed_out
                    THEN {AfterDeadline(checks[i].timeout, l) : l \in KillLatencies}
                    ELSE ExitTimes :
       run' = [run EXCEPT ![i].execution_time = Some(reading)]
  /\ task' = [task EXCEPT ![i] = IF run[i].timed_out THEN "reap" ELSE "read"]
  /\ UNCHANGED <<pc, key_file, key_writes, allow_empty_vars, sequential, templates, built,
                 checks, child, spawned, out, results, rows, log, failure, panics, input,
                 output>>

\* child.wait() on the timeout path and the return of the timed-out result;
\* the captured stdout is not read.
Wait(i) ==
  /\ pc = "run"
  /\ task[i] = "reap"
  /\ child[i] = "exited"
  /\ child' = [child EXCEPT ![i] = "reaped"]
  /\ out' = [out EXCEPT ![i] = Some(TimedOutResult(checks[i], run[i].execution_time[1]))]
  /\ task' = [task EXCEPT ![i] = "returned"]
  /\ UNCHANGED <<pc, key_file, key_writes, allow_empty_vars, sequential, templates, built,
                 checks, spawned, run, results, rows, log, failure, panics, input, output>>

\* read_to_string on the stdout of the child that exited, and the return of
\* the result built from the exit code and the text.  The child of this model
\* leaves no process that holds the pipe.
ReadStdout(i) ==
  /\ pc = "run"
  /\ task[i] = "read"
  /\ out' = [out EXCEPT ![i] =
               Some(ExitResult(checks[i], run[i].status,
                               Program(CmdVec(checks[i])[1]).stdout,
                               run[i].execution_time[1]))]
  /\ task' = [task EXCEPT ![i] = "returned"]
  /\ UNCHANGED <<pc, key_file, key_writes, allow_empty_vars, sequential, templates, built,
                 checks, child, spawned, run, results, rows, log, failure, panics, input,
                 output>>

\* join_all: the outputs of the futures in the order of the futures
join_all(outs) == [i \in 1..Len(outs) |-> outs[i][1]]

\* run_all_checks_in_parallel returns Ok: every task returned a result.
JoinAll ==
  /\ pc = "run"
  /\ ~sequential
  /\ \A i \in 1..Len(checks) : task[i] = "returned"
  /\ results' = join_all(out)
  /\ pc' = "process"
  /\ UNCHANGED <<key_file, key_writes, allow_empty_vars, sequential, templates, built, checks,
                 task, child, spawned, run, out, rows, log, failure, panics, input, output>>

\* A task panicked: collect yields the JoinError and main's unwrap panics.
JoinError ==
  /\ pc = "run"
  /\ ~sequential
  /\ \A i \in 1..Len(checks) : task[i] \in {"returned", "panicked"}
  /\ \E i \in 1..Len(checks) : task[i] = "panicked"
  /\ failure' = Failure("JoinError", <<>>,
                        CHOOSE i \in 1..Len(checks) :
                          /\ task[i] = "panicked"
                          /\ \A j \in 1..(i - 1) : task[j] # "panicked")
  /\ pc' = "panicked"
  /\ UNCHANGED <<key_file, key_writes, allow_empty_vars, sequential, templates, built, checks,
                 task, child, spawned, run, out, results, rows, log, panics, input, output>>

\* run_all_checks_sequentially returns the collected results.
Collect ==
  /\ pc = "run"
  /\ sequential
  /\ \A i \in 1..Len(checks) : task[i] = "returned"
  /\ results' = [i \in 1..Len(out) |-> out[i][1]]
  /\ pc' = "process"
  /\ UNCHANGED <<key_file, key_writes, allow_empty_vars, sequential, templates, built, checks,
                 task, child, spawned, run, out, rows, log, failure, panics, input, output>>

\* The list as_csv_string writes: a list without rows gets a default row.
WrittenRows(list) == IF list = <<>> THEN <<ProcessedCheckResult_default>> ELSE list

\* .process().as_csv_string(): the rows of the results as they are written,
\* and exit(0); a panic of process leaves nothing written.
Output ==
  /\ pc = "process"
  /\ rows' = IF process(results).panic THEN <<>> ELSE WrittenRows(process(results).rows)
  /\ pc' = IF process(results).panic THEN "panicked" ELSE "done"
  /\ failure' = IF process(results).panic THEN Failure("Invalid perfdata", <<>>, 0)
                ELSE failure
  /\ UNCHANGED <<key_file, key_writes, allow_empty_vars, sequential, templates, built, checks,
                 task, child, spawned, run, out, results, log, panics, input, output>>

Next ==
  \/ LoadKeyFile
  \/ BuildCheck
  \/ ExpandPanics
  \/ StartRun
  \/ \E i \in 1..Len(checks) : Spawn(i)
  \/ \E i \in 1..Len(checks) : RunPanics(i)
  \/ \E i \in 1..Len(checks) : ChildExits(i)
  \/ \E i \in 1..Len(checks) : StatusArrives(i)
  \/ \E i \in 1..Len(checks) : DeadlinePasses(i)
  \/ \E i \in 1..Len(checks) : Kill(i)
  \/ \E i \in 1..Len(checks) : Elapsed(i)
  \/ \E i \in 1..Len(checks) : Wait(i)
  \/ \E i \in 1..Len(checks) : ReadStdout(i)
  \/ JoinAll
  \/ JoinError
  \/ Collect
  \/ Output

Spec == Init /\ [][Next]_vars


(***************************************************************************)
(* VariableString::from_str and Check::expand_ranges applied to inputs     *)
(***************************************************************************)

\* A name or command string is written as a sequence of pieces: literal text
\* and $NAME$ tokens (F and G are set in the environment, M and N are not).
Pieces ==
  {<<"a">>, <<" ">>, Token(<<"F">>), Token(<<"G">>), Token(<<"M">>), Token(<<"N">>)}

MaxPieces == 3

ResolveInputs == UNION {[1..n -> Pieces] : n \in 0..MaxPieces}

InitResolve ==
  /\ MainIdle
  /\ input \in {Some(i) : i \in ResolveInputs}
  /\ output = None

\* VariableString::from_str(s) with no key file loaded
Resolve ==
  /\ input # None
  /\ output = None
  /\ output' = Some(VariableString_from_str(Concat(input[1]), None))
  /\ UNCHANGED <<main_vars, input>>

NextResolve == Resolve

SpecResolve == InitResolve /\ [][NextResolve]_vars

\* A template with one range, or with two ranges in either textual order: the
\* name is "n" and the placeholders joined by "-", the command "e" and the
\* placeholders as arguments.
RangeBounds == {0, 1, 2, 10}

RangeNames == {<<"A">>, <<"B">>}

InputRanges ==
  {Range_new(n, s, e) : n \in RangeNames, s \in RangeBounds, e \in RangeBounds}

ExpandInputs ==
  {<<r>> : r \in {x \in InputRanges : x.start <= x.end}}
  \cup {<<r1, r2>> : r1 \in {x \in InputRanges : x.start <= x.end},
                     r2 \in {x \in InputRanges : x.start <= x.end}}

TemplateName(ranges) ==
  <<"n">> \o join([k \in 1..Len(ranges) |-> Placeholder(ranges[k])], <<"-">>)

TemplateCommand(ranges) ==
  <<"e", " ">> \o join([k \in 1..Len(ranges) |-> Placeholder(ranges[k])], <<" ">>)

InitExpand ==
  /\ MainIdle
  /\ input \in {Some(i) : i \in {x \in ExpandInputs : Len(x) = 1 \/ x[1] # x[2]}}
  /\ output = None

\* check.expand_ranges() of the check with that name and command
Expand ==
  /\ input # None
  /\ output = None
  /\ output' = Some(expand_ranges(Check_new(TemplateName(input[1]),
                                            TemplateCommand(input[1]), DEFAULT_TIMEOUT)))
  /\ UNCHANGED <<main_vars, input>>

NextExpand == Expand

SpecExpand == InitExpand /\ [][NextExpand]_vars


(***************************************************************************)
(* Properties                                                              *)
(***************************************************************************)

Elems(seq) == {seq[k] : k \in 1..Len(seq)}

\* The run of the checks has begun (the tasks exist).
RunStarted == pc \in {"run", "process", "done", "panicked"} /\ DOMAIN task = DOMAIN checks

\* C1 (as stated): when the parallel run of a batch is over, the result list is
\* as long as the list of checks and position i holds the result of check i; the
\* rows written are those of the sequential collection of the same results.
C1_ParallelReturnsEveryResult ==
  (~sequential /\ RunStarted /\ pc \in {"process", "done", "panicked"}) =>
    /\ Len(results) = Len(checks)
    /\ \A i \in 1..Len(checks) : out[i] # None /\ results[i] = out[i][1]
    /\ pc = "done" => rows = WrittenRows(process([i \in 1..Len(checks) |-> out[i][1]]).rows)

SpawnFailed(i) == RunPanic(checks[i]) = "Failed to execute command"

\* C2 (as stated): a check whose executable cannot be spawned does not stop the
\* batch: main never panics on account of it.
C2_SpawnFailureIsLocal ==
  ~(/\ pc = "panicked"
    /\ failure # None
    /\ failure[1].check \in DOMAIN checks
    /\ SpawnFailed(failure[1].check))

TimedOutAfter ==
  <<"U", "N", "K", "N", "O", "W", "N", ":", " ", "T", "i", "m", "e", "d", " ", "o",
    "u", "t", " ", "a", "f", "t", "e", "r", " ">>

\* Check::run of check i has returned after wait_timeout found the deadline
\* passed with the child running.
TimedOut(i) == task[i] = "returned" /\ run[i].timed_out

\* C3: the result of a check whose deadline passed before its child exited has
\* status 3, the short output "UNKNOWN: Timed out after 1 second" when the
\* timeout is 1 and "UNKNOWN: Timed out after N seconds" otherwise, empty long
\* output and performance data, and projects to exactly one row.
C3_TimedOutResult ==
  /\ \A i \in DOMAIN task :
       TimedOut(i) =>
         LET r == out[i][1]
             N == checks[i].timeout
         IN /\ r.status = Some(3)
            /\ r.short_output =
                 IF N = 1 THEN TimedOutAfter \o <<"1", " ", "s", "e", "c", "o", "n", "d">>
                 ELSE TimedOutAfter \o to_string(N)
                      \o <<" ", "s", "e", "c", "o", "n", "d", "s">>
            /\ r.long_output = <<>>
            /\ r.performance_data = <<>>
            /\ ~from_check_result(r).panic
            /\ Len(from_check_result(r).rows) = 1
  /\ (pc = "done" /\ Len(checks) >= 1 /\ \A i \in DOMAIN task : TimedOut(i))
       => Len(rows) = Len(checks)

\* C3 witness: a check with timeout 1 and a check with timeout 0 both timed out,
\* and their rows are written.
C3_Witness ==
  /\ pc = "done"
  /\ \E i, j \in DOMAIN task :
       /\ TimedOut(i) /\ checks[i].timeout = 1
       /\ TimedOut(j) /\ checks[j].timeout = 0

ConfigPanics ==
  {"Failed to split command", "After splitting the command by words, the command is empty"}

\* C4 (as stated): no check is spawned twice, and when the run of a batch
\* without configuration errors is over every check was spawned once and has
\* one result, the result list being as long as the list of checks.
C4_OneResultPerCheck ==
  /\ \A i \in DOMAIN spawned : spawned[i] <= 1
  /\ (/\ RunStarted
      /\ pc \in {"process", "done", "panicked"}
      /\ \A i \in DOMAIN checks : RunPanic(checks[i]) \notin ConfigPanics)
     => /\ \A i \in DOMAIN checks : spawned[i] = 1 /\ out[i] # None
        /\ Len(results) = Len(checks)

ConstructionErrors ==
  {"Ranges in name and command do not match", "Only 1 or 2 ranges are supported"}

\* The $NAME$ tokens of an entry whose environment value carries the secret marker
SecretTokens(entry) ==
  {n \in Elems(variable_names(entry.name)) \cup Elems(variable_names(entry.command)) :
     env_var(n) # None /\ potentially_encrypted(env_var(n)[1])}

\* C5 (as stated): whenever a check has a configuration error of any kind
\* (ranges that do not expand, a command that does not split or is empty after
\* splitting, a secret with no key file loaded), no process of the batch has
\* been spawned.
C5_AllConfigurationErrorsBeforeSpawn ==
  /\ (\/ (failure # None /\ failure[1].kind \in ConstructionErrors)
      \/ \E p \in panics : p.kind \in ConfigPanics)
       => \A i \in DOMAIN spawned : spawned[i] = 0
  /\ (key_file = None /\ pc # "start"
      /\ \E k \in 1..Len(templates) : SecretTokens(templates[k]) # {})
       => \A i \in DOMAIN spawned : spawned[i] = 0

\* The exit code wait_timeout returned for the child of check i once
\* Check::run has returned, None when the check timed out or a signal ended
\* the child
ExitCode(i) ==
  IF task[i] = "returned" /\ ~run[i].timed_out THEN run[i].status ELSE None

Alerts(threshold, v) ==
  /\ threshold # None
  /\ ThresholdRange_from_str(threshold[1]).ok
  /\ is_alert(ThresholdRange_from_str(threshold[1]), v)

\* The status the warn and crit thresholds of a row give its value
ThresholdStatus(row) ==
  IF row.value = None THEN None
  ELSE IF Alerts(row.crit, row.value[1]) THEN Some(2)
  ELSE IF Alerts(row.warn, row.value[1]) THEN Some(1)
  ELSE Some(0)

\* The rows from_check_result produces for a result: none when it panics
Produced(r) == IF from_check_result(r).panic THEN <<>> ELSE from_check_result(r).rows

\* C6 (amended): when the child exited with a status, every main row produced
\* from the result carries that status verbatim whatever its thresholds say;
\* each secondary row produced (two or more performance tokens) carries the
\* status derived from the thresholds of its token.
C6_ExitStatusOnMainRow ==
  LET Carries(produced, code) ==
        \A k \in 1..Len(produced) :
          produced[k].status = IF k = 1 THEN code ELSE ThresholdStatus(produced[k])
  IN /\ \A i \in DOMAIN out :
          ExitCode(i) # None => Carries(Produced(out[i][1]), ExitCode(i))
     /\ (pc = "done" /\ Len(checks) >= 1 /\ ExitCode(1) # None)
          => rows[1].status = ExitCode(1)

\* C6 witness: a check that exited with status 2 has a secondary row whose
\* thresholds give status 1, and another check that exited with status 0 has a
\* single token whose thresholds would give 2.
C6_Witness ==
  /\ pc = "done"
  /\ \E i \in DOMAIN out :
       /\ ExitCode(i) = Some(2)
       /\ \E k \in 2..Len(Produced(out[i][1])) : Produced(out[i][1])[k].status = Some(1)
  /\ \E i \in DOMAIN out :
       /\ ExitCode(i) = Some(0)
       /\ Len(Produced(out[i][1])) = 1
       /\ Produced(out[i][1])[1].value # None
       /\ ThresholdStatus(Produced(out[i][1])[1]) = Some(2)

\* C6 (as stated): when the child exited with a status, no row of the check
\* carries another status.
C6_NoRowHasThresholdStatus ==
  LET Verbatim(produced, code) ==
        \A k \in 1..Len(produced) : produced[k].status \in {code, None}
  IN \A i \in DOMAIN out :
       ExitCode(i) # None => Verbatim(Produced(out[i][1]), ExitCode(i))

\* The clear values of the secrets in the environment of the model
SecretValues == {<<"p", "w">>, <<"q", "r">>}

\* A name or command as it is to be shown: the token of a secret as ***, the
\* token of any other variable that is set as its value.
RECURSIVE ShownFrom(_, _, _)
ShownFrom(s, names, k) ==
  IF k > Len(names) THEN s
  ELSE IF env_var(names[k]) = None THEN ShownFrom(s, names, k + 1)
  ELSE IF potentially_encrypted(env_var(names[k])[1])
  THEN ShownFrom(replace(s, Token(names[k]), Stars), names, k + 1)
  ELSE ShownFrom(replace(s, Token(names[k]), env_var(names[k])[1]), names, k + 1)

Shown(s) == ShownFrom(s, variable_names(s), 1)

\* C7 (as stated): no log message contains the clear value of a secret, and
\* neither do the name, command and variables-found columns of a row; in the
\* name and command of a check the token of a secret is shown as ***.
C7_SecretShownAsStars ==
  /\ \A e \in log : \A v \in SecretValues : ~contains(e.text, v)
  /\ \A k \in 1..Len(rows) : \A v \in SecretValues :
       /\ ~contains(rows[k].name, v)
       /\ ~contains(rows[k].command, v)
       /\ ~contains(unwrap_or_default(rows[k].variables_found), v)
  /\ (pc = "done" /\ Len(templates) = 1 /\ Len(checks) = 1
      /\ SecretTokens(templates[1]) # {})
       => \A k \in 1..Len(rows) :
            /\ rows[k].name = Shown(trim(templates[1].name))
            /\ rows[k].command = Shown(trim(templates[1].command))

\* C8 (as stated): with no key file loaded, an entry with a token whose value
\* matches the secret marker is never built: no check of the batch is run, and
\* when the build loop reaches the entry the program exits with an error that
\* names a secret variable of the entry.
C8_SecretWithoutKeyFile ==
  \A k \in 1..Len(templates) :
    (key_file = None /\ pc # "start" /\ SecretTokens(templates[k]) # {}) =>
      /\ built < k
      /\ pc \in {"build", "exited", "panicked"}
      /\ spawned = <<>>
      /\ (pc = "exited" /\ built = k - 1 /\ failure[1].kind \notin LoadErrors) =>
           /\ failure[1].name \in SecretTokens(templates[k])
           /\ \E e \in log :
                e.level = "error" /\ contains(e.text, DebugStr(failure[1].name))

IsToken(piece) == Len(piece) >= 3 /\ piece[1] = "$"

TokenName(piece) == SubSeq(piece, 2, Len(piece) - 1)

\* The value the environment of the model sets a name to ("" when unset)
SetTo(name) ==
  IF name = <<"F">> THEN <<"b">> ELSE IF name = <<"G">> THEN <<"c", "d">> ELSE <<>>

\* C9: resolution of a string written as pieces succeeds; every token of a set
\* variable is replaced by its value and the variable is in the found list (and
\* not in the not-found list); every token of an unset variable stays verbatim
\* and the variable is in the not-found list (and not in the found list).
C9_TokensResolved ==
  (input # None /\ output # None /\ input[1] \in ResolveInputs) =>
    LET pieces == input[1]
        o == output[1]
        found == IF o.variables_found = None THEN {} ELSE Elems(o.variables_found[1])
        missing == IF o.variables_not_found = None THEN {}
                   ELSE Elems(o.variables_not_found[1])
    IN /\ o.err = None
       /\ o.clear_string =
            Some(Concat([k \in 1..Len(pieces) |->
                           IF IsToken(pieces[k]) /\ SetTo(TokenName(pieces[k])) # <<>>
                           THEN SetTo(TokenName(pieces[k])) ELSE pieces[k]]))
       /\ o.obfuscated_string = None
       /\ \A k \in 1..Len(pieces) :
            IsToken(pieces[k]) =>
              LET name == TokenName(pieces[k]) IN
              IF SetTo(name) # <<>>
              THEN /\ Public(Found(name, Some(SetTo(name)), None)) \in found
                   /\ \A v \in missing : v.var.name # name
              ELSE /\ Public(NotFound(name)) \in missing
                   /\ \A v \in found : v.var.name # name
       /\ \A v \in found \cup missing :
            \E k \in 1..Len(pieces) : IsToken(pieces[k]) /\ TokenName(pieces[k]) = v.var.name

\* C9 witness: a string with a token of a set variable used twice and a token
\* of an unset variable has been resolved.
C9_Witness ==
  /\ input = Some(<<Token(<<"F">>), Token(<<"M">>), Token(<<"F">>)>>)
  /\ output # None
  /\ output[1].clear_string = Some(<<"b", "$", "M", "$", "b">>)

\* Order of the ranges: by name, then start, then end
Before(a, b) ==
  \/ a.name = <<"A">> /\ b.name = <<"B">>
  \/ a.name = b.name /\ a.start < b.start
  \/ a.name = b.name /\ a.start = b.start /\ a.end < b.end

RangeSize(r) == r.end - r.start + 1

\* C10: a template with one range A:s..e expands to e-s+1 checks, the k-th with
\* the placeholder replaced by s+k-1; a template with two ranges expands to the
\* product of the sizes, in row-major order with the first range in sorted order
\* as the outer loop; all the expanded names are distinct.
C10_RowMajorExpansion ==
  (input # None /\ output # None /\ input[1] \in ExpandInputs) =>
    LET rs == input[1]
        o == output[1]
        first == IF Len(rs) = 1 \/ Before(rs[1], rs[2]) THEN rs[1] ELSE rs[2]
        second == IF Len(rs) = 1 THEN rs[1] ELSE IF Before(rs[1], rs[2]) THEN rs[2] ELSE rs[1]
        n2 == RangeSize(second)
        Numbers(k) ==
          IF Len(rs) = 1 THEN <<to_string(first.start + k - 1)>>
          ELSE LET i == to_string(first.start + ((k - 1) \div n2))
                   j == to_string(second.start + ((k - 1) % n2))
               IN IF first = rs[1] THEN <<i, j>> ELSE <<j, i>>
    IN /\ o.panic = None
       /\ Len(o.checks) = IF Len(rs) = 1 THEN RangeSize(first) ELSE RangeSize(first) * n2
       /\ \A k \in 1..Len(o.checks) :
            /\ o.checks[k].name = <<"n">> \o join(Numbers(k), <<"-">>)
            /\ o.checks[k].command = <<"e", " ">> \o join(Numbers(k), <<" ">>)
       /\ \A k, l \in 1..Len(o.checks) : o.checks[k].name = o.checks[l].name => k = l

\* C10 witness: a template that names B:1..2 before A:0..1 has been expanded to
\* four checks, the second of which has A = 0 and B = 2.
C10_Witness ==
  /\ input = Some(<<Range_new(<<"B">>, 1, 2), Range_new(<<"A">>, 0, 1)>>)
  /\ output # None
  /\ Len(output[1].checks) = 4
  /\ output[1].checks[2].name = <<"n", "2", "-", "0">>


(***************************************************************************)
(* Check::expand_ranges on names and commands with different ranges        *)
(***************************************************************************)

\* The placeholders a name or a command is written with.
RangePool ==
  {Range_new(<<"A">>, 1, 2), Range_new(<<"B">>, 1, 2), Range_new(<<"A">>, 0, 1),
   Range_new(<<"B">>, 2, 2)}

MaxRangeTokens == 3

RangeLists == UNION {[1..n -> RangePool] : n \in 0..MaxRangeTokens}

InitRanges ==
  /\ MainIdle
  /\ input \in {Some(<<ns, cs>>) : ns \in RangeLists, cs \in RangeLists}
  /\ output = None

\* check.expand_ranges() of a check whose name holds the placeholders of
\* input[1][1] and whose command holds those of input[1][2]
ExpandRanges ==
  /\ input # None
  /\ output = None
  /\ output' = Some(expand_ranges(Check_new(TemplateName(input[1][1]),
                                            TemplateCommand(input[1][2]),
                                            DEFAULT_TIMEOUT)))
  /\ UNCHANGED <<main_vars, input>>

NextRanges == ExpandRanges

SpecRanges == InitRanges /\ [][NextRanges]_vars

\* C11: expand_ranges panics and returns no check whenever the set of ranges
\* of the name differs from the set of ranges of the command, and whenever the
\* common set has three or more ranges.
C11_MismatchOrTooManyRangesIsFatal ==
  (input # None /\ output # None) =>
    LET name_set == Elems(input[1][1])
        command_set == Elems(input[1][2])
    IN /\ name_set # command_set =>
            /\ output[1].panic = Some("Ranges in name and command do not match")
            /\ output[1].checks = <<>>
       /\ (name_set = command_set /\ Cardinality(name_set) >= 3) =>
            /\ output[1].panic = Some("Only 1 or 2 ranges are supported")
            /\ output[1].checks = <<>>

\* C11 witness: the same three ranges, written in different orders in the name
\* and in the command, have been refused.
C11_Witness ==
  /\ input # None
  /\ output # None
  /\ input[1][1] # input[1][2]
  /\ Elems(input[1][1]) = Elems(input[1][2])
  /\ Cardinality(Elems(input[1][1])) = 3
  /\ output[1].panic = Some("Only 1 or 2 ranges are supported")

(***************************************************************************)
(* CheckResults::process applied to lists of check results                 *)
(***************************************************************************)

\* Performance-data tokens as a plugin prints them: all fields set, a warn
\* field that is no threshold range, a quoted label with a space.
FullToken == <<"x", "=", "9", "s", ";", "5", ";", "7", ";", "0", ";", "9">>

MalformedWarnToken == <<"y", "=", "1", ";", "a">>

QuotedLabelToken == <<"'", "q", " ", "r", "'", "=", "1", ".", "2", "3", "4", "5">>

PerfTokens == {FullToken, MalformedWarnToken, QuotedLabelToken}

MaxTokens == 3

TokenLists == UNION {[1..n -> PerfTokens] : n \in 0..MaxTokens}

\* A plugin that was killed by a signal reports no status.
ResultStatuses == {None, Some(2)}

MaxResults == 2

ResultNames == <<<<"a">>, <<"b">>>>

ProcessInputs ==
  UNION {[1..n -> [status : ResultStatuses, tokens : TokenLists]] : n \in 0..MaxResults}

\* CheckResultBuilder::new().name(..).command(..).short_output(..).long_output(..)
\* .performance_data(..).variables_found(..).build(), with the status set when
\* there is one
BuiltResult(name, status, tokens) ==
  CheckResultBuilder_build(
    [CheckResultBuilder_new(name, <<"e", " ", "$", "F", "$", " ", "$", "M", "$">>,
                            Some(<<Public(Found(<<"F">>, Some(<<"b">>), None))>>),
                            Some(<<Public(NotFound(<<"M">>))>>))
       EXCEPT !.status = status,
              !.short_output = Some(<<"o">>),
              !.long_output = Some(<<"l">>),
              !.performance_data = Some(join(tokens, <<" ">>)),
              !.execution_time = Some(<<"1", ".", "0", "0", "0", "0", " ", "s">>)])

CheckResults(in) == [k \in 1..Len(in) |-> BuiltResult(ResultNames[k], in[k].status, in[k].tokens)]

InitProcess ==
  /\ MainIdle
  /\ input \in {Some(i) : i \in ProcessInputs}
  /\ output = None

\* CheckResults(results).process()
Process ==
  /\ input # None
  /\ output = None
  /\ output' = Some(process(CheckResults(input[1])))
  /\ UNCHANGED <<main_vars, input>>

NextProcess == Process

SpecProcess == InitProcess /\ [][NextProcess]_vars

(***************************************************************************)
(* Properties of the row projection                                        *)
(***************************************************************************)

\* The number of rows of a check result with n performance-data tokens
RowCount(n) == IF n <= 1 THEN 1 ELSE n + 1

\* The number of rows of the results before the k-th
RECURSIVE RowsBefore(_, _)
RowsBefore(in, k) ==
  IF k <= 1 THEN 0 ELSE RowsBefore(in, k - 1) + RowCount(Len(in[k - 1].tokens))

\* The label each token is printed with
TokenLabel(t) ==
  CASE t = FullToken -> <<"x">>
    [] t = MalformedWarnToken -> <<"y">>
    [] t = QuotedLabelToken -> <<"q", " ", "r">>

\* C12: a result with n tokens projects to 1 row when n <= 1 and to n + 1 rows
\* when n >= 2, the main row first and then one secondary row per token in token
\* order; the rows of the results follow each other in the order of the results.
C12_RowsPerToken ==
  (input # None /\ output # None) =>
    /\ ~output[1].panic
    /\ Len(output[1].rows) = RowsBefore(input[1], Len(input[1]) + 1)
    /\ \A k \in 1..Len(input[1]) :
         /\ output[1].rows[RowsBefore(input[1], k) + 1].name = ResultNames[k]
         /\ Len(input[1][k].tokens) >= 2 =>
              \A j \in 1..Len(input[1][k].tokens) :
                 output[1].rows[RowsBefore(input[1], k) + 1 + j].name =
                    <<"\t">> \o ResultNames[k] \o <<"#">>
                    \o TokenLabel(input[1][k].tokens[j])

\* The fields each token is printed with
TokenFields(t) ==
  CASE t = FullToken ->
         [label |-> Some(<<"x">>), value |-> Some([mant |-> 9, exp |-> 0]), uom |-> Some(<<"s">>),
          warn |-> Some(<<"5">>), crit |-> Some(<<"7">>), min |-> Some(<<"0">>),
          max |-> Some(<<"9">>)]
    [] t = MalformedWarnToken ->
         [label |-> Some(<<"y">>), value |-> Some([mant |-> 1, exp |-> 0]), uom |-> None,
          warn |-> Some(<<"a">>), crit |-> None, min |-> None, max |-> None]
    [] t = QuotedLabelToken ->
         [label |-> Some(<<"q", " ", "r">>), value |-> Some([mant |-> 12345, exp |-> 4]), uom |-> None,
          warn |-> None, crit |-> None, min |-> None, max |-> None]

\* The row at position j after the main row of the k-th result
SecondaryRow(k, j) == output[1].rows[RowsBefore(input[1], k) + 1 + j]

\* C13: every secondary row is named tab, check name, '#', label; it carries the
\* fields of its token and the status its thresholds give, and its short output,
\* command, performance-data string, long output, execution time and variable
\* lists are blank.
C13_SecondaryRowCarriesOnlyItsToken ==
  (input # None /\ output # None /\ ~output[1].panic) =>
    \A k \in 1..Len(input[1]) :
      Len(input[1][k].tokens) >= 2 =>
        \A j \in 1..Len(input[1][k].tokens) :
          /\ SecondaryRow(k, j).name =
               <<"\t">> \o ResultNames[k] \o <<"#">> \o TokenLabel(input[1][k].tokens[j])
          /\ \A f \in {"label", "value", "uom", "warn", "crit", "min", "max"} :
               SecondaryRow(k, j)[f] = TokenFields(input[1][k].tokens[j])[f]
          /\ SecondaryRow(k, j).status = ThresholdStatus(SecondaryRow(k, j))
          /\ \A f \in {"short_output", "command", "performance_data_string",
                       "long_output", "execution_time"} :
               SecondaryRow(k, j)[f] = <<>>
          /\ SecondaryRow(k, j).variables_found = None
          /\ SecondaryRow(k, j).variables_not_found = None

\* C13 witness: a result that reported status 2 has been projected to a
\* secondary row with status 0 and one with status 2, each from its thresholds.
C13_Witness ==
  /\ input # None
  /\ output # None
  /\ ~output[1].panic
  /\ Len(input[1]) >= 1
  /\ input[1][1].status = Some(2)
  /\ input[1][1].tokens = <<QuotedLabelToken, FullToken>>
  /\ SecondaryRow(1, 1).status = Some(0)
  /\ SecondaryRow(1, 2).status = Some(2)

\* The first row of the k-th result
MainRow(k) == output[1].rows[RowsBefore(input[1], k) + 1]

\* process has returned a main row for the k-th result.
HasMainRow(k) == RowsBefore(input[1], k) + 1 <= Len(output[1].rows)

\* What the main row of the k-th result carries besides the short output
MainRowCarries(k) ==
  /\ \A f \in {"label", "value", "uom", "warn", "crit", "min", "max"} : MainRow(k)[f] = None
  /\ MainRow(k).name = ResultNames[k]
  /\ MainRow(k).command = <<"e", " ", "$", "F", "$", " ", "$", "M", "$">>
  /\ MainRow(k).long_output = <<"l">>
  /\ MainRow(k).performance_data_string = join(input[1][k].tokens, <<" ">>)
  /\ MainRow(k).execution_time = <<"1", ".", "0", "0", "0", "0", " ", "s">>
  /\ MainRow(k).variables_found = Some(<<"F", "=", "\"", "b", "\"">>)
  /\ MainRow(k).variables_not_found = Some(<<"M">>)

\* C14 (amended): the main row of a result with two or more tokens has blank
\* per-metric fields and carries the name, the short output, the command, the
\* long output, the performance-data string, the execution time and the
\* variable lists of the result.
C14_MainRowKeepsShortOutput ==
  (input # None /\ output # None) =>
    \A k \in 1..Len(input[1]) :
      (Len(input[1][k].tokens) >= 2 /\ HasMainRow(k)) =>
        /\ MainRowCarries(k)
        /\ MainRow(k).short_output = <<"o">>

\* C14 witness: a result with three tokens has been projected and its main row
\* shows the short output.
C14_Witness ==
  /\ input # None
  /\ output # None
  /\ Len(input[1]) = 2
  /\ Len(input[1][2].tokens) = 3
  /\ HasMainRow(2)
  /\ MainRow(2).short_output = <<"o">>
  /\ MainRow(2).label = None

\* C14 (as stated): the main row of a result with two or more tokens has a
\* blank short output.
C14_MainRowHasBlankShortOutput ==
  (input # None /\ output # None) =>
    \A k \in 1..Len(input[1]) :
      (Len(input[1][k].tokens) >= 2 /\ HasMainRow(k)) =>
        /\ MainRowCarries(k)
        /\ MainRow(k).short_output = <<>>

\* The row that shows the j-th token of the k-th result
TokenRow(k, j) == IF Len(input[1][k].tokens) = 1 THEN MainRow(k) ELSE SecondaryRow(k, j)

\* C17: a token whose warn field is no threshold range does not fail the
\* processing: its row is produced, with the label and the value of the token.
C17_MalformedTokenKeepsRow ==
  (input # None /\ output # None) =>
    \A k \in 1..Len(input[1]) :
      \A j \in 1..Len(input[1][k].tokens) :
        input[1][k].tokens[j] = MalformedWarnToken =>
          /\ ~output[1].panic
          /\ TokenRow(k, j).label = Some(<<"y">>)
          /\ TokenRow(k, j).value = Some([mant |-> 1, exp |-> 0])

(***************************************************************************)
(* CSV serialization (ProcessedCheckResults::as_csv_string)                *)
(***************************************************************************)

\* The header the csv writer derives from the field names of
\* ProcessedCheckResult (serde rename_all = "camelCase")
CsvHeader ==
  <<<<"n", "a", "m", "e">>,
    <<"s", "t", "a", "t", "u", "s">>,
    <<"s", "h", "o", "r", "t", "O", "u", "t", "p", "u", "t">>,
    <<"l", "a", "b", "e", "l">>,
    <<"v", "a", "l", "u", "e">>,
    <<"u", "o", "m">>,
    <<"w", "a", "r", "n">>,
    <<"c", "r", "i", "t">>,
    <<"m", "i", "n">>,
    <<"m", "a", "x">>,
    <<"c", "o", "m", "m", "a", "n", "d">>,
    <<"p", "e", "r", "f", "o", "r", "m", "a", "n", "c", "e", "D", "a", "t", "a", "S", "t", "r", "i", "n", "g">>,
    <<"l", "o", "n", "g", "O", "u", "t", "p", "u", "t">>,
    <<"e", "x", "e", "c", "u", "t", "i", "o", "n", "T", "i", "m", "e">>,
    <<"v", "a", "r", "i", "a", "b", "l", "e", "s", "F", "o", "u", "n", "d">>,
    <<"v", "a", "r", "i", "a", "b", "l", "e", "s", "N", "o", "t", "F", "o", "u", "n", "d">>>>

\* The serializer's text of an f64 >= 0 (ryu): the shortest decimal that reads
\* back as the value, with a decimal point; the exponent form when the first
\* digit is at the sixth decimal or later.
format_f64(v) ==
  LET digits == to_string(v.mant)
      kk == Len(digits) - v.exp
  IN IF v.mant = 0 THEN <<"0", ".", "0">>
     ELSE IF v.exp = 0 THEN digits \o <<".", "0">>
     ELSE IF kk > 0 THEN SubSeq(digits, 1, kk) \o <<".">> \o SubSeq(digits, kk + 1, Len(digits))
     ELSE IF kk > -5 THEN <<"0", ".">> \o [k \in 1..(0 - kk) |-> "0"] \o digits
     ELSE <<Head(digits)>> \o (IF Len(digits) > 1 THEN <<".">> \o Tail(digits) ELSE <<>>)
          \o <<"e", "-">> \o to_string(1 - kk)

\* The fields of one record: None is an empty field
CsvRecord(r) ==
  <<r.name,
    IF r.status = None THEN <<>> ELSE to_string(r.status[1]),
    r.short_output,
    unwrap_or_default(r.label),
    IF r.value = None THEN <<>> ELSE format_f64(r.value[1]),
    unwrap_or_default(r.uom),
    unwrap_or_default(r.warn),
    unwrap_or_default(r.crit),
    unwrap_or_default(r.min),
    unwrap_or_default(r.max),
    r.command,
    r.performance_data_string,
    r.long_output,
    r.execution_time,
    unwrap_or_default(r.variables_found),
    unwrap_or_default(r.variables_not_found)>>

\* as_csv_string(&mut self): the list after the call and the text returned.
\* QuoteStyle::Never writes every field as it is.
as_csv_string(self) ==
  LET Written(list) ==
        [rows |-> list,
         text |-> join(CsvHeader, <<",">>) \o <<"\n">>
                  \o Concat([k \in 1..Len(list) |->
                               join(CsvRecord(list[k]), <<",">>) \o <<"\n">>])]
  IN Written(IF self = <<>> THEN <<ProcessedCheckResult_default>> ELSE self)

\* Texts with a comma and with a newline, used in names, commands, outputs and
\* variable values.
CsvTexts == {<<"o">>, <<"a", ",", "b">>, <<"c", "\n", "d">>}

CommaLabelToken == <<"'", "a", ",", "b", "'", "=", "0", ".", "0", "0", "0", "5">>

CsvTokens == {FullToken, CommaLabelToken}

MaxCsvTokens == 2

CsvTokenLists == UNION {[1..n -> CsvTokens] : n \in 0..MaxCsvTokens}

CsvInputs ==
  UNION {[1..n -> [text : CsvTexts, status : ResultStatuses, tokens : CsvTokenLists]] :
           n \in 0..MaxResults}

\* The values of the k-th result before they are escaped
RawValues(k, in) ==
  [name |-> ResultNames[k] \o in.text,
   command |-> <<"e", " ">> \o in.text,
   short_output |-> <<"s">> \o in.text,
   long_output |-> <<"l">> \o in.text,
   performance_data |-> join(in.tokens, <<" ">>),
   variables_found |-> <<Public(Found(<<"F">>, Some(in.text), None)),
                         Public(Found(<<"G">>, Some(<<"c", "d">>), None))>>,
   variables_not_found |-> <<Public(NotFound(<<"M">>))>>]

\* CheckResultBuilder::new() with these values, built
ValuedResult(k, in) ==
  CheckResultBuilder_build(
    [CheckResultBuilder_new(RawValues(k, in).name, RawValues(k, in).command,
                            Some(RawValues(k, in).variables_found),
                            Some(RawValues(k, in).variables_not_found))
       EXCEPT !.status = in.status,
              !.short_output = Some(RawValues(k, in).short_output),
              !.long_output = Some(RawValues(k, in).long_output),
              !.performance_data = Some(RawValues(k, in).performance_data),
              !.execution_time = Some(<<"1", ".", "0", "0", "0", "0", " ", "s">>)])

InitCsv ==
  /\ MainIdle
  /\ input \in {Some(i) : i \in CsvInputs}
  /\ output = None

\* CheckResults(results).process(): the rows, and no text rendered yet
ProcessValues ==
  /\ input # None
  /\ output = None
  /\ output' = Some([processed |-> process([k \in 1..Len(input[1]) |->
                                              ValuedResult(k, input[1][k])]),
                     texts |-> <<>>])
  /\ UNCHANGED <<main_vars, input>>

MaxCalls == 2

\* rows.as_csv_string(), called on the same list again and again
AsCsv ==
  /\ output # None
  /\ "texts" \in DOMAIN output[1]
  /\ ~output[1].processed.panic
  /\ Len(output[1].texts) < MaxCalls
  /\ LET Called(csv) ==
           output' = Some([processed |-> [panic |-> FALSE, rows |-> csv.rows],
                           texts |-> Append(output[1].texts, csv.text)])
     IN Called(as_csv_string(output[1].processed.rows))
  /\ UNCHANGED <<main_vars, input>>

NextCsv == ProcessValues \/ AsCsv

SpecCsv == InitCsv /\ [][NextCsv]_vars

(***************************************************************************)
(* Properties of the CSV text                                              *)
(***************************************************************************)

\* s with every comma written as backslash-comma and every newline as
\* backslash-n
RECURSIVE Escaped(_)
Escaped(s) ==
  IF s = <<>> THEN <<>>
  ELSE (IF Head(s) = "," THEN <<"\\", ",">>
        ELSE IF Head(s) = "\n" THEN <<"\\", "n">>
        ELSE <<Head(s)>>) \o Escaped(Tail(s))

\* The n-th position of P in increasing order; 0 before the first and
\* Len(s) + 1 after the last
CutPosition(s, P, n) ==
  IF n = 0 THEN 0
  ELSE IF n > Cardinality(P) THEN Len(s) + 1
  ELSE CHOOSE i \in P : Cardinality({j \in P : j < i}) = n - 1

\* The pieces of s between the positions of P
CutAt(s, P) ==
  [n \in 1..(Cardinality(P) + 1) |->
     SubSeq(s, CutPosition(s, P, n - 1) + 1, CutPosition(s, P, n) - 1)]

\* The fields of a line: it is cut at every comma that no backslash precedes.
CsvFields(line) ==
  CutAt(line, {i \in 1..Len(line) : line[i] = "," /\ (i = 1 \/ line[i - 1] # "\\")})

\* The lines of a text that ends each line with a newline
TextLines(text) ==
  SubSeq(CutAt(text, {i \in 1..Len(text) : text[i] = "\n"}), 1,
         Cardinality({i \in 1..Len(text) : text[i] = "\n"}))

\* The fields of the line of the j-th row of the k-th result (the main row is
\* row 0) in the text of the first call
RowFields(k, j) ==
  CsvFields(TextLines(output[1].texts[1])[RowsBefore(input[1], k) + 2 + j])

CsvTokenLabel(t) == IF t = CommaLabelToken THEN <<"a", ",", "b">> ELSE <<"x">>

\* Variables::to_string of the variables found of a result with this text
RawVariablesFound(text) ==
  <<"F", "=", "\"">> \o text \o <<"\"", ",", "G", "=", "\"", "c", "d", "\"">>

\* C15: no field is quoted, and in the name, the command, the short output, the
\* long output, the performance-data string and the variable lists of every
\* row each comma is written as backslash-comma and each newline as
\* backslash-n, so that every line has the sixteen fields of the header.
C15_CommasAndNewlinesEscaped ==
  (input # None /\ output # None /\ output[1].texts # <<>>) =>
    \A k \in 1..Len(input[1]) :
      /\ Len(RowFields(k, 0)) = Len(CsvHeader)
      /\ RowFields(k, 0)[1] = Escaped(RawValues(k, input[1][k]).name)
      /\ RowFields(k, 0)[3] = Escaped(RawValues(k, input[1][k]).short_output)
      /\ RowFields(k, 0)[11] = Escaped(RawValues(k, input[1][k]).command)
      /\ RowFields(k, 0)[12] = Escaped(RawValues(k, input[1][k]).performance_data)
      /\ RowFields(k, 0)[13] = Escaped(RawValues(k, input[1][k]).long_output)
      /\ RowFields(k, 0)[15] = Escaped(RawVariablesFound(input[1][k].text))
      /\ RowFields(k, 0)[16] = <<"M">>
      /\ Len(input[1][k].tokens) >= 2 =>
           \A j \in 1..Len(input[1][k].tokens) :
             /\ Len(RowFields(k, j)) = Len(CsvHeader)
             /\ RowFields(k, j)[1] =
                  Escaped(<<"\t">> \o RawValues(k, input[1][k]).name \o <<"#">>
                          \o CsvTokenLabel(input[1][k].tokens[j]))

\* The number of rows the results of the input are projected to
InputRows == RowsBefore(input[1], Len(input[1]) + 1)

\* C16: the text is the header line followed by one line per row, the fields in
\* the order of the header; for no rows it is the header line alone; a second
\* call on the same list returns the same text.
C16_HeaderThenOneLinePerRow ==
  (input # None /\ output # None /\ output[1].texts # <<>>) =>
    /\ TextLines(output[1].texts[1])[1] = join(CsvHeader, <<",">>)
    /\ Len(TextLines(output[1].texts[1])) = 1 + InputRows
    /\ \A k \in 1..Len(input[1]) :
         input[1][k].tokens = <<>> =>
           RowFields(k, 0) =
             <<Escaped(RawValues(k, input[1][k]).name),
               IF input[1][k].status = None THEN <<>> ELSE to_string(input[1][k].status[1]),
               Escaped(RawValues(k, input[1][k]).short_output),
               <<>>, <<>>, <<>>, <<>>, <<>>, <<>>, <<>>,
               Escaped(RawValues(k, input[1][k]).command),
               <<>>,
               Escaped(RawValues(k, input[1][k]).long_output),
               <<"1", ".", "0", "0", "0", "0", " ", "s">>,
               Escaped(RawVariablesFound(input[1][k].text)),
               <<"M">> >>
    /\ \A n \in 1..Len(output[1].texts) : output[1].texts[n] = output[1].texts[1]

(***************************************************************************)
(* CheckResultBuilder::parse_output applied to plugin outputs              *)
(***************************************************************************)

\* The stdout of a plugin is written as a sequence of pieces: text, the bar,
\* performance-data tokens, a newline, the usage banners and a text that
\* differs from a banner by case.
OutputPieces ==
  {<<"o">>, <<"|">>, <<" ", "x", "=", "1", ";", "2", " ">>, <<"y", "=", "2">>, <<"\n">>,
   <<"U", "s", "a", "g", "e", ":", " ", "c", "h", "e", "c", "k">>, <<"u", "s", "a", "g", "e", ":", " ", "c", "h", "e", "c", "k">>, <<"[", "-", "h", "|", "-", "-", "h", "e", "l", "p", "]">>,
   <<"U", "s", "a", "g", "e", ":", " ", "C", "h", "e", "c", "k">>}

MaxOutputPieces == 3

PluginOutputs == UNION {[1..n -> OutputPieces] : n \in 0..MaxOutputPieces}

InitOutput ==
  /\ MainIdle
  /\ input \in {Some(i) : i \in PluginOutputs}
  /\ output = None

\* CheckResultBuilder::new().name("a").command("e").parse_output(stdout).build()
\* and the rows the result is projected to
ParseOutput ==
  /\ input # None
  /\ output = None
  /\ LET Parsed(result) ==
           output' = Some([performance_data |-> result.performance_data,
                           processed |-> from_check_result(result)])
     IN Parsed(CheckResultBuilder_build(
                 parse_output(CheckResultBuilder_new(<<"a">>, <<"e">>, None, None),
                              Concat(input[1]))))
  /\ UNCHANGED <<main_vars, input>>

NextOutput == ParseOutput

SpecOutput == InitOutput /\ [][NextOutput]_vars

\* s holds one of the three usage banners
HasBanner(s) ==
  \E b \in {<<"U", "s", "a", "g", "e", ":", " ", "c", "h", "e", "c", "k">>, <<"u", "s", "a", "g", "e", ":", " ", "c", "h", "e", "c", "k">>, <<"[", "-", "h", "|", "-", "-", "h", "e", "l", "p", "]">>} :
    \E i \in 1..Len(s) : i + Len(b) - 1 <= Len(s) /\ SubSeq(s, i, i + Len(b) - 1) = b

\* s without the whitespace at its ends
Trimmed(s) ==
  LET keep == {i \in 1..Len(s) : s[i] \notin Whitespace} IN
  IF keep = {} THEN <<>>
  ELSE SubSeq(s, CHOOSE i \in keep : \A j \in keep : i <= j,
                 CHOOSE i \in keep : \A j \in keep : j <= i)

\* The text after the first bar of s, trimmed; empty when s has no bar
AfterFirstBar(s) ==
  LET bars == {i \in 1..Len(s) : s[i] = "|"} IN
  IF bars = {} THEN <<>>
  ELSE Trimmed(SubSeq(s, (CHOOSE i \in bars : \A j \in bars : i <= j) + 1, Len(s)))

\* C18: the performance-data string is the trimmed text after the first '|' of
\* the output, except that an output with a usage banner has an empty one and
\* is projected to exactly one row without metric fields.
C18_PerformanceDataAfterFirstBar ==
  (input # None /\ output # None) =>
    /\ output[1].performance_data =
         IF HasBanner(Concat(input[1])) THEN <<>> ELSE AfterFirstBar(Concat(input[1]))
    /\ HasBanner(Concat(input[1])) =>
         /\ ~output[1].processed.panic
         /\ Len(output[1].processed.rows) = 1
         /\ \A f \in {"label", "value", "uom", "warn", "crit", "min", "max"} :
              output[1].processed.rows[1][f] = None

\* C18 witness: an output with a usage banner, a bar and a token after it has
\* been parsed to one row.
C18_Witness ==
  /\ input # None
  /\ output # None
  /\ HasBanner(Concat(input[1]))
  /\ AfterFirstBar(Concat(input[1])) = <<"x", "=", "1", ";", "2">>
  /\ output[1].performance_data = <<>>
  /\ Len(output[1].processed.rows) = 1

(***************************************************************************)
(* VariableString::from_str with a key file, on repeated and permuted      *)
(* tokens                                                                  *)
(***************************************************************************)

\* Blank text and the tokens of two public, two secret and two unset variables.
VariablePieces ==
  {<<" ">>, Token(<<"F">>), Token(<<"G">>), Token(<<"S">>), Token(<<"T">>),
   Token(<<"M">>), Token(<<"N">>)}

MaxVariablePieces == 4

VariableInputs == UNION {[1..n -> VariablePieces] : n \in 0..MaxVariablePieces}

InitVariables ==
  /\ MainIdle
  /\ input \in {Some(i) : i \in VariableInputs}
  /\ output = None

\* VariableString::from_str(s) with the key file loaded
ResolveVariables ==
  /\ input # None
  /\ output = None
  /\ output' = Some(VariableString_from_str(Concat(input[1]), Some(TheKeyFile)))
  /\ UNCHANGED <<main_vars, input>>

NextVariables == ResolveVariables

SpecVariables == InitVariables /\ [][NextVariables]_vars

\* The entry a name has in the lists, written out for the names of the pieces
ExpectedVariable(name) ==
  CASE name = <<"F">> -> Public(Found(name, Some(<<"b">>), None))
    [] name = <<"G">> -> Public(Found(name, Some(<<"c", "d">>), None))
    [] name = <<"S">> -> Secret(Found(name, Some(Environment[name]), Some(<<"p", "w">>)))
    [] name = <<"T">> -> Secret(Found(name, Some(Environment[name]), Some(<<"q", "r">>)))
    [] OTHER -> Public(NotFound(name))

\* The names of the tokens among the pieces
TokenNames(pieces) ==
  {TokenName(pieces[k]) : k \in {j \in 1..Len(pieces) : IsToken(pieces[j])}}

\* list is absent when expected is empty; otherwise it holds exactly the
\* expected entries, public ones before secret ones and by name within each
ListIsCanonical(list, expected) ==
  IF expected = {} THEN list = None
  ELSE /\ list # None
       /\ list[1] # <<>>
       /\ Elems(list[1]) = expected
       /\ \A i \in 1..Len(list[1]) : \A j \in (i + 1)..Len(list[1]) :
            \/ list[1][i].kind = "Public" /\ list[1][j].kind = "Secret"
            \/ /\ list[1][i].kind = list[1][j].kind
               /\ StrLess(list[1][i].var.name, list[1][j].var.name)

\* C19: the found and the not-found list of a resolved string are sorted by
\* variant, name and value without duplicates and hold exactly the variables
\* of the set of names among the tokens, so they do not depend on the order or
\* the number of the tokens; a list without entries is absent.
C19_VariableListsSortedAndDeduplicated ==
  (input # None /\ output # None /\ input[1] \in VariableInputs) =>
    /\ output[1].err = None
    /\ ListIsCanonical(output[1].variables_found,
                       {ExpectedVariable(n) : n \in TokenNames(input[1]) \cap DOMAIN Environment})
    /\ ListIsCanonical(output[1].variables_not_found,
                       {ExpectedVariable(n) : n \in TokenNames(input[1]) \ DOMAIN Environment})

\* C19 witness: a string with a secret token before public ones, one of them
\* twice and in descending order, has been resolved to the sorted found list
\* and an absent not-found list.
C19_Witness ==
  /\ input = Some(<<Token(<<"S">>), Token(<<"G">>), Token(<<"F">>), Token(<<"G">>)>>)
  /\ output # None
  /\ output[1].variables_found =
       Some(<<ExpectedVariable(<<"F">>), ExpectedVariable(<<"G">>), ExpectedVariable(<<"S">>)>>)
  /\ output[1].variables_not_found = None

(***************************************************************************)
(* One call of Check::run, its child process and the holders of the pipe   *)
(* that is the child's stdout                                              *)
(***************************************************************************)

\* self.timeout in seconds
RunTimeouts == {0, 1, 2}

\* Bounds on what the processes do: bytes written to the pipe, descendants
\* that inherit the child's stdout
MaxWritten == 3

MaxDescendants == 2

\* The bytes a pipe buffers before a write to it blocks (65536 on Linux)
PipeCapacity == 2

\* What the command does: it writes len bytes to its stdout and then exits
\* with code 0, or sleeps for ever when exits is FALSE.
RunPrograms == [timeout : RunTimeouts, len : 0..MaxWritten, exits : BOOLEAN]

InitRun ==
  /\ MainIdle
  /\ input \in {Some(p) : p \in RunPrograms}
  /\ output = None

\* Command::new(cmd).args(args).stdout(Stdio::piped()).spawn(): the child runs
\* with the write end of the pipe as its stdout; run enters wait_timeout.
SpawnChild ==
  /\ input # None
  /\ output = None
  /\ output' = Some([pc |-> "wait", elapsed |-> 0, child |-> "running",
                     descendants |-> 0, done |-> 0, written |-> 0, s |-> None,
                     timed_out |-> FALSE, status |-> None])
  /\ UNCHANGED <<main_vars, input>>

\* A write to the pipe does not block: the pipe has room, or run is reading it.
PipeRoom(r) == r.pc = "read" \/ r.written < PipeCapacity

\* The child can take its next step: write a byte, or exit after the last one.
ProcessReady(r, program) ==
  /\ r.child = "running"
  /\ \/ r.done < program.len /\ PipeRoom(r)
     \/ r.done = program.len /\ program.exits

\* A second passes while run is in wait_timeout and the child is blocked,
\* asleep or gone.
Elapse ==
  /\ output # None
  /\ output[1].pc = "wait"
  /\ output[1].elapsed < input[1].timeout
  /\ ~ProcessReady(output[1], input[1])
  /\ output' = Some([output[1] EXCEPT !.elapsed = @ + 1])
  /\ UNCHANGED <<main_vars, input>>

\* The child writes a byte to its stdout.
ProcessWrites ==
  /\ output # None
  /\ output[1].child = "running"
  /\ output[1].done < input[1].len
  /\ PipeRoom(output[1])
  /\ output' = Some([output[1] EXCEPT !.done = @ + 1, !.written = @ + 1])
  /\ UNCHANGED <<main_vars, input>>

\* The child starts a process that inherits its stdout.
ProcessForks ==
  /\ output # None
  /\ output[1].child = "running"
  /\ output[1].descendants < MaxDescendants
  /\ output' = Some([output[1] EXCEPT !.descendants = @ + 1])
  /\ UNCHANGED <<main_vars, input>>

\* The child has written its output and exits; its copy of the write end is
\* closed.
ProcessExits ==
  /\ output # None
  /\ output[1].child = "running"
  /\ output[1].done = input[1].len
  /\ input[1].exits
  /\ output' = Some([output[1] EXCEPT !.child = "exited"])
  /\ UNCHANGED <<main_vars, input>>

\* A descendant writes a byte to the inherited stdout while run holds the
\* read end.
DescendantWrites ==
  /\ output # None
  /\ output[1].descendants > 0
  /\ output[1].pc # "returned"
  /\ output[1].written < MaxWritten
  /\ PipeRoom(output[1])
  /\ output' = Some([output[1] EXCEPT !.written = @ + 1])
  /\ UNCHANGED <<main_vars, input>>

\* A descendant exits or closes the inherited stdout.
DescendantCloses ==
  /\ output # None
  /\ output[1].descendants > 0
  /\ output' = Some([output[1] EXCEPT !.descendants = @ - 1])
  /\ UNCHANGED <<main_vars, input>>

\* wait_timeout returns Some(status): the child has exited and is reaped.
WaitTimeoutSome ==
  /\ output # None
  /\ output[1].pc = "wait"
  /\ output[1].child = "exited"
  /\ output' = Some([output[1] EXCEPT !.child = "reaped", !.status = Some(0),
                                      !.pc = "read"])
  /\ UNCHANGED <<main_vars, input>>

\* wait_timeout returns None: the deadline has passed and the child runs.
WaitTimeoutNone ==
  /\ output # None
  /\ output[1].pc = "wait"
  /\ output[1].child = "running"
  /\ output[1].elapsed = input[1].timeout
  /\ output' = Some([output[1] EXCEPT !.timed_out = TRUE, !.pc = "kill"])
  /\ UNCHANGED <<main_vars, input>>

\* child.kill(): the child is gone, not yet waited for.
KillChild ==
  /\ output # None
  /\ output[1].pc = "kill"
  /\ output' = Some([output[1] EXCEPT !.child = "exited", !.pc = "reap"])
  /\ UNCHANGED <<main_vars, input>>

\* The timed-out result built right after the kill (a variant under which C22
\* fails).
ReturnWithoutWait ==
  /\ output # None
  /\ output[1].pc = "reap"
  /\ output' = Some([output[1] EXCEPT !.status = Some(3), !.pc = "returned"])
  /\ UNCHANGED <<main_vars, input>>

\* child.wait() and the return of the timed-out result with status 3; the
\* captured stdout is not read.
WaitChild ==
  /\ output # None
  /\ output[1].pc = "reap"
  /\ output[1].child = "exited"
  /\ output' = Some([output[1] EXCEPT !.child = "reaped", !.status = Some(3),
                                      !.pc = "returned"])
  /\ UNCHANGED <<main_vars, input>>

\* child.stdout.unwrap().read_to_string(&mut s) returns at the end of the
\* stream, when no process holds the write end of the pipe; the result is built
\* from the exit code and s and returned.
ReadToString ==
  /\ output # None
  /\ output[1].pc = "read"
  /\ output[1].descendants = 0
  /\ output' = Some([output[1] EXCEPT !.s = Some(output[1].written), !.pc = "returned"])
  /\ UNCHANGED <<main_vars, input>>

NextRun ==
  \/ SpawnChild
  \/ Elapse
  \/ ProcessWrites
  \/ ProcessForks
  \/ ProcessExits
  \/ DescendantWrites
  \/ DescendantCloses
  \/ WaitTimeoutSome
  \/ WaitTimeoutNone
  \/ KillChild
  \/ WaitChild
  \/ ReadToString

\* The steps of run itself are taken when they can be, a child that can write
\* or exit does so, and time passes; nothing is assumed of the descendants.
FairRun ==
  /\ WF_vars(SpawnChild)
  /\ WF_vars(Elapse)
  /\ WF_vars(ProcessWrites)
  /\ WF_vars(ProcessExits)
  /\ WF_vars(WaitTimeoutSome)
  /\ WF_vars(WaitTimeoutNone)
  /\ WF_vars(KillChild)
  /\ WF_vars(WaitChild)
  /\ WF_vars(ReadToString)

SpecRun == InitRun /\ [][NextRun]_vars /\ FairRun

\* C20: every call of Check::run eventually returns, whatever the child and
\* the descendants that inherit its stdout do.
C20_RunEventuallyReturns ==
  (output # None) ~> (output # None /\ output[1].pc = "returned")

\* C21: a check whose command writes its output and exits, run with a timeout
\* of a second or more, is not reported as timed out: its result has the exit
\* code and all the bytes the command wrote, however many they are.
C21_FinishingProcessNotTimedOut ==
  (/\ input # None
   /\ output # None
   /\ input[1] \in RunPrograms
   /\ input[1].exits
   /\ input[1].timeout > 0
   /\ output[1].pc = "returned") =>
    /\ ~output[1].timed_out
    /\ output[1].status = Some(0)
    /\ output[1].s # None
    /\ output[1].s[1] >= input[1].len

\* When run has returned a result, the child has terminated and has been
\* waited for.
ChildReapedWhenReturned ==
  (input # None /\ input[1] \in RunPrograms /\ output # None
   /\ output[1].pc = "returned") =>
    output[1].child = "reaped"

\* The order on the timeout path: the kill is followed by the wait and only
\* the wait returns the result.
TimedOutResultFollowsWait ==
  [][(input # None /\ input[1] \in RunPrograms /\ output # None /\ output' # None
      /\ output[1].timed_out /\ output'[1].pc = "returned" /\ output[1].pc # "returned")
     => (output[1].pc = "reap" /\ output[1].child = "exited"
         /\ output'[1].child = "reaped")]_vars

\* C22: whenever run has returned a result the child has terminated and has
\* been waited for; on the timeout path the kill precedes the wait and the wait
\* precedes the result.
C22_ChildWaitedForBeforeResult ==
  []ChildReapedWhenReturned /\ TimedOutResultFollowsWait

\* C22 witness: a run has timed out, killed and waited for its child and
\* returned the result with status 3.
C22_Witness ==
  /\ input # None
  /\ input[1] \in RunPrograms
  /\ output # None
  /\ output[1].pc = "returned"
  /\ output[1].timed_out
  /\ output[1].status = Some(3)
  /\ output[1].child = "reaped"

(***************************************************************************)
(* Properties of the process-wide key file and of the variable lists       *)
(***************************************************************************)

\* Before main has read the key file nothing is written to KEY_FILE and no
\* entry has been built.
NoResolutionBeforeLoad == pc = "start" => (key_writes = 0 /\ key_file = None /\ built = 0)

\* The start of main writes KEY_FILE at most once: the two writes are in the
\* branches of one if / else if.
KeyFileWrittenAtMostOnce == key_writes <= 1

\* After the start of main no step writes KEY_FILE, and the start is not
\* repeated.
KeyFileFrozenAfterLoad ==
  [][pc # "start" => (key_writes' = key_writes /\ key_file' = key_file /\ pc' # "start")]_vars

\* C23: KEY_FILE is written at most once, by main before the first entry is
\* built, and keeps its value from then on: every check of the batch is
\* resolved after the only write, with the same key file or with none.
C23_KeyFileWrittenOnceBeforeResolution ==
  []NoResolutionBeforeLoad /\ []KeyFileWrittenAtMostOnce /\ KeyFileFrozenAfterLoad

\* C23 witness: the key file was written once, and after that two entries
\* with tokens, one of them a secret, have been built.
C23_Witness ==
  /\ pc = "run"
  /\ key_writes = 1
  /\ key_file = Some(TheKeyFile)
  /\ built = 2
  /\ SecretTokens(templates[1]) # {}
  /\ variable_names(templates[2].command) # <<>>

(***************************************************************************)
(* ProcessedCheckResult::status_from_perfdata applied to rows              *)
(***************************************************************************)

\* 0.0005, 5, 5.0001 and 9
RowValues ==
  {None, Some([mant |-> 5, exp |-> 4]), Some([mant |-> 5, exp |-> 0]),
   Some([mant |-> 50001, exp |-> 4]), Some([mant |-> 9, exp |-> 0])}

\* A threshold field: absent, four ranges, and a text that is no range
RowThresholds == {None, Some(<<"5">>), Some(<<"7">>), Some(<<"@", "5", ":", "7">>), Some(<<"1", "0", ":">>), Some(<<"a">>)}

RowStatuses == {None, Some(3)}

StatusInputs ==
  {[ProcessedCheckResult_default EXCEPT !.status = st, !.value = v, !.warn = w, !.crit = c] :
     st \in RowStatuses, v \in RowValues, w \in RowThresholds, c \in RowThresholds}

InitStatus ==
  /\ MainIdle
  /\ input \in {Some(row) : row \in StatusInputs}
  /\ output = None

\* row.status_from_perfdata()
EvaluateStatus ==
  /\ input # None
  /\ output = None
  /\ output' = Some(status_from_perfdata(input[1]))
  /\ UNCHANGED <<main_vars, input>>

NextStatus == EvaluateStatus

SpecStatus == InitStatus /\ [][NextStatus]_vars

\* The values of RowValues that alert on a threshold field, by the Nagios
\* range semantics, written out; no value alerts on a text that is no range.
AlertingValues(threshold) ==
  CASE threshold = Some(<<"5">>) -> {[mant |-> 50001, exp |-> 4], [mant |-> 9, exp |-> 0]}
    [] threshold = Some(<<"7">>) -> {[mant |-> 9, exp |-> 0]}
    [] threshold = Some(<<"@", "5", ":", "7">>) ->
         {[mant |-> 5, exp |-> 0], [mant |-> 50001, exp |-> 4]}
    [] threshold = Some(<<"1", "0", ":">>) -> {v[1] : v \in RowValues \ {None}}
    [] OTHER -> {}

\* The status the thresholds of a row give its value
ExpectedStatus(row) ==
  IF row.value[1] \in AlertingValues(row.crit) THEN 2
  ELSE IF row.value[1] \in AlertingValues(row.warn) THEN 1
  ELSE 0

\* C24: a row without a status and with a value gets status 2 when its value
\* alerts on crit, else 1 when it alerts on warn, else 0; a row without a value
\* keeps its unset status.
C24_StatusFromThresholds ==
  (input # None /\ output # None /\ input[1] \in StatusInputs /\ input[1].status = None) =>
    /\ ~output[1].panic
    /\ output[1].row =
         IF input[1].value = None THEN input[1]
         ELSE [input[1] EXCEPT !.status = Some(ExpectedStatus(input[1]))]

\* A piece as it is displayed: a secret's token as ***, a public variable's
\* token as its value, any other piece as it is
DisplayedPiece(piece) ==
  IF ~IsToken(piece) THEN piece
  ELSE IF TokenName(piece) \in {<<"S">>, <<"T">>} THEN Stars
  ELSE IF SetTo(TokenName(piece)) # <<>> THEN SetTo(TokenName(piece))
  ELSE piece

\* C25: an obfuscated string is the resolved string with each secret's value
\* shown as ***: public variables are substituted in it and unset tokens stay,
\* for every order of the tokens.
C25_ObfuscatedIsClearWithStars ==
  (input # None /\ output # None /\ input[1] \in VariableInputs
   /\ output[1].obfuscated_string # None) =>
    output[1].obfuscated_string =
      Some(Concat([k \in 1..Len(input[1]) |-> DisplayedPiece(input[1][k])]))

\* C26: every line of the text of as_csv_string has exactly sixteen fields,
\* whatever the plugin wrote: no value of a row, the label and the name of a
\* secondary row included, holds a comma that is not escaped or a raw newline.
C26_SixteenFieldsPerLine ==
  (input # None /\ output # None /\ "texts" \in DOMAIN output[1]
   /\ output[1].texts # <<>>) =>
    /\ Len(TextLines(output[1].texts[1])) = 1 + Len(output[1].processed.rows)
    /\ \A n \in 1..Len(TextLines(output[1].texts[1])) :
         Len(CsvFields(TextLines(output[1].texts[1])[n])) = 16

(***************************************************************************)
(* CheckBuilder::build followed by Check::expand_ranges                    *)
(***************************************************************************)

\* The variables a template entry names: a public, a secret and an unset one
BuildVariables == {<<"F">>, <<"S">>, <<"M">>}

MaxNameTokens == 1

MaxCommandTokens == 2

\* The ranges of an entry: none, one, or two
BuildRanges ==
  {<<>>, <<Range_new(<<"A">>, 1, 2)>>,
   <<Range_new(<<"A">>, 1, 2), Range_new(<<"B">>, 0, 1)>>}

BuildTimeouts == {1, 7}

\* An entry is written from the tokens of its name, the tokens of its command,
\* its ranges and its timeout.
BuildInputs ==
  [name_tokens : UNION {[1..n -> BuildVariables] : n \in 0..MaxNameTokens},
   command_tokens : UNION {[1..n -> BuildVariables] : n \in 0..MaxCommandTokens},
   ranges : BuildRanges,
   timeout : BuildTimeouts]

\* The entry as the template has it: name "n", its tokens and the
\* placeholders; command "e", its tokens and the placeholders as arguments
WrittenEntry(in) ==
  [name |-> TemplateName(in.ranges)
              \o Concat([k \in 1..Len(in.name_tokens) |-> Token(in.name_tokens[k])]),
   command |-> TemplateCommand(in.ranges)
                 \o Concat([k \in 1..Len(in.command_tokens) |->
                              <<" ">> \o Token(in.command_tokens[k])]),
   timeout |-> in.timeout]

\* The builder main makes of the entry: name and command are trimmed
BuildEntry(in) == EntryBuilder(WrittenEntry(in))

InitBuild ==
  /\ MainIdle
  /\ input \in {Some(in) : in \in BuildInputs}
  /\ output = None

\* CheckBuilder::new().name(n).command(c).timeout(t).build().expand_ranges()
BuildAndExpand ==
  /\ input # None
  /\ output = None
  /\ LET Built(c) == output' = Some([check |-> c, expanded |-> expand_ranges(c)])
     IN Built(CheckBuilder_build(BuildEntry(input[1])))
  /\ UNCHANGED <<main_vars, input>>

NextBuild == BuildAndExpand

SpecBuild == InitBuild /\ [][NextBuild]_vars

\* C27: every check that expand_ranges emits has the timeout and the found
\* and not-found variable lists of the check it was applied to, for zero, one
\* and two ranges.
C27_ExpansionKeepsTimeoutAndVariables ==
  (input # None /\ output # None /\ input[1] \in BuildInputs) =>
    /\ output[1].expanded.panic = None
    /\ \A k \in 1..Len(output[1].expanded.checks) :
         /\ output[1].expanded.checks[k].timeout = input[1].timeout
         /\ output[1].expanded.checks[k].variables_found = output[1].check.variables_found
         /\ output[1].expanded.checks[k].variables_not_found =
              output[1].check.variables_not_found

\* The names in a variable list
ListedNames(list) ==
  IF list = None THEN {} ELSE {list[1][k].var.name : k \in 1..Len(list[1])}

\* C28: every variable named by a token of the name or of the command of an
\* entry is in exactly one of the found and not-found lists of the built check.
C28_NameAndCommandTokensRecorded ==
  (input # None /\ output # None /\ input[1] \in BuildInputs) =>
    /\ ListedNames(output[1].check.variables_found)
         \cap ListedNames(output[1].check.variables_not_found) = {}
    /\ \A v \in Elems(input[1].name_tokens) \cup Elems(input[1].command_tokens) :
         v \in ListedNames(output[1].check.variables_found)
                 \cup ListedNames(output[1].check.variables_not_found)

(***************************************************************************)
(* Check::expand_ranges on placeholders as they are written in a template  *)
(***************************************************************************)

\* Placeholder texts: two ranges, each also written with a leading zero
WrittenPlaceholders ==
  {<<"!", "!", "A", ":", "1", ".", ".", "2", "!", "!">>, <<"!", "!", "A", ":", "0", "1", ".", ".", "2", "!", "!">>, <<"!", "!", "B", ":", "0", ".", ".", "1", "!", "!">>, <<"!", "!", "B", ":", "0", ".", ".", "0", "1", "!", "!">>,
   <<"!", "!", "A", ":", "1", ".", ".", "2", "1", "4", "7", "4", "8", "3", "6", "4", "8", "!", "!">>}

MaxWrittenPlaceholders == 2

WrittenLists ==
  UNION {[1..n -> WrittenPlaceholders] : n \in 1..MaxWrittenPlaceholders}

InitWritten ==
  /\ MainIdle
  /\ input \in {Some([name |-> ns, command |-> cs]) : ns \in WrittenLists, cs \in WrittenLists}
  /\ output = None

\* check.expand_ranges() of the check named "n" and the texts of input.name,
\* with the command "e" and the texts of input.command as arguments
ExpandWritten ==
  /\ input # None
  /\ output = None
  /\ output' = Some(expand_ranges(Check_new(<<"n">> \o join(input[1].name, <<"-">>),
                                            <<"e", " ">> \o join(input[1].command, <<" ">>),
                                            DEFAULT_TIMEOUT)))
  /\ UNCHANGED <<main_vars, input>>

NextWritten == ExpandWritten

SpecWritten == InitWritten /\ [][NextWritten]_vars

\* C29: when expand_ranges succeeds on an input with one or two ranges, no
\* emitted check has placeholder text left in its name or its command, also
\* when a placeholder is written with leading zeros.
C29_NoPlaceholderLeft ==
  (input # None /\ output # None /\ "name" \in DOMAIN input[1]
   /\ input[1].name \in WrittenLists /\ output[1].panic = None) =>
    \A k \in 1..Len(output[1].checks) :
      /\ \A i \in 1..Len(output[1].checks[k].name) : output[1].checks[k].name[i] # "!"
      /\ \A i \in 1..Len(output[1].checks[k].command) : output[1].checks[k].command[i] # "!"

(***************************************************************************)
(* VariableString::from_str on a variable whose value holds a token        *)
(***************************************************************************)

\* Blank text and the tokens of F, G, the unset M, and H, whose value is the
\* text $G$
SubstitutionPieces ==
  {<<" ">>, Token(<<"F">>), Token(<<"G">>), Token(<<"H">>), Token(<<"M">>)}

MaxSubstitutionPieces == 3

SubstitutionInputs ==
  UNION {[1..n -> SubstitutionPieces] : n \in 0..MaxSubstitutionPieces}

InitSubstitute ==
  /\ MainIdle
  /\ input \in {Some(i) : i \in SubstitutionInputs}
  /\ output = None

\* VariableString::from_str(s) with no key file loaded
Substitute ==
  /\ input # None
  /\ output = None
  /\ output' = Some(VariableString_from_str(Concat(input[1]), None))
  /\ UNCHANGED <<main_vars, input>>

NextSubstitute == Substitute

SpecSubstitute == InitSubstitute /\ [][NextSubstitute]_vars

\* A piece with its own variable's value in the place of a token
SubstitutedPiece(piece) ==
  CASE piece = Token(<<"F">>) -> <<"b">>
    [] piece = Token(<<"G">>) -> <<"c", "d">>
    [] piece = Token(<<"H">>) -> <<"$", "G", "$">>
    [] OTHER -> piece

\* C30: the resolved string is the original with each token replaced by the
\* value of its own variable; text that a value brings in is not substituted
\* again.
C30_SubstitutionIsSinglePass ==
  (input # None /\ output # None /\ input[1] \in SubstitutionInputs) =>
    /\ output[1].err = None
    /\ output[1].clear_string =
         Some(Concat([k \in 1..Len(input[1]) |-> SubstitutedPiece(input[1][k])]))

====
